---------------------------- MODULE Spec2Model ----------------------------
(***************************************************************************)
(* EducationDataAPI (src/educationdata/api.py): a client whose methods     *)
(* validate their arguments, build a URL, issue one GET on the shared      *)
(* requests.Session, check the status and decode the JSON body.            *)
(*                                                                         *)
(* Representation.  A Python string that the code builds by concatenation  *)
(* (a URL, an error message) is a sequence of tokens; the separators "/",  *)
(* "?", "=", "&" are tokens of their own, so that a URL can be taken apart *)
(* again; in an error message a phrase that names a combination of flags   *)
(* ("race and sex") is a token of its own, so that what a message names    *)
(* can be read off it.  String concatenation is \o.  A scalar passed by    *)
(* the caller is a one-field record naming its Python type: [int |-> 3],   *)
(* [str |-> "AL"], [bool |-> TRUE].  **kwargs is a sequence of             *)
(* <<key, value>> pairs with distinct keys, in the order the caller wrote  *)
(* them (a dict keeps insertion order).                                    *)
(***************************************************************************)
EXTENDS Integers, Sequences, FiniteSets, TLC

\* ------------------------------------------------------------------ bounds

\* At most this many keyword filters in one call.
MaxFilters == 2

\* ------------------------------------------------------- values and strings

BASE_URL == "https://educationdata.urban.org/api/v1/"

\* str(value), as an f-string placeholder formats a scalar.
Str(value) ==
    IF "int" \in DOMAIN value THEN ToString(value.int)
    ELSE IF "bool" \in DOMAIN value THEN (IF value.bool THEN "True" ELSE "False")
    ELSE value.str

\* Python truthiness of a scalar, as `if race:` tests it.
Truthy(value) ==
    IF "bool" \in DOMAIN value THEN value.bool
    ELSE IF "int" \in DOMAIN value THEN value.int # 0
    ELSE value.str # ""

\* '&'.join(f"{key}={value}" for key, value in kwargs.items())
RECURSIVE JoinAmp(_)
JoinAmp(kwargs) ==
    IF kwargs = <<>> THEN <<>>
    ELSE IF Len(kwargs) = 1 THEN <<kwargs[1][1], "=", Str(kwargs[1][2])>>
    ELSE <<kwargs[1][1], "=", Str(kwargs[1][2]), "&">> \o JoinAmp(Tail(kwargs))

\* A variant of AppendQuery that leaves the last filter out of the query.
AppendQuery_without_last(url, kwargs) ==
    IF kwargs # <<>>
    THEN url \o <<"?">> \o JoinAmp(SubSeq(kwargs, 1, Len(kwargs) - 1))
    ELSE url

\* A variant of AppendQuery that writes the filters in the order of their keys.
AppendQuery_in_key_order(url, kwargs) ==
    LET order == <<"fips", "race", "state_location">>
        rank(key) == CHOOSE i \in 1..Len(order) : order[i] = key
        pairs == {kwargs[i] : i \in 1..Len(kwargs)}
        sorted ==
            CHOOSE s \in [1..Len(kwargs) -> pairs] :
                /\ {s[i] : i \in 1..Len(s)} = pairs
                /\ \A i, j \in 1..Len(s) : i < j => rank(s[i][1]) < rank(s[j][1])
    IN  IF kwargs # <<>> THEN url \o <<"?">> \o JoinAmp(sorted) ELSE url

\* A variant of AppendQuery that writes the "?" even when there is no filter.
AppendQuery_always(url, kwargs) == url \o <<"?">> \o JoinAmp(kwargs)

\* if kwargs: url += f"?{query_string}"
AppendQuery(url, kwargs) ==
    IF kwargs # <<>> THEN url \o <<"?">> \o JoinAmp(kwargs) ELSE url

\* What a method does before it reaches session.get: it raises, or it has a
\* URL to request.  base is the value of url before a segment fragment is
\* appended to it.
Raise(exc, msg) == [exc |-> exc, msg |-> msg, base |-> <<>>, url |-> <<>>]
Request(base, url) == [exc |-> "none", msg |-> <<>>, base |-> base, url |-> url]

\* ------------------------------ methods that only build a URL and request it

\* url = f"{self.BASE_URL}api-endpoints"
get_metadata_endpoints ==
    LET url == <<BASE_URL, "api-endpoints">>
    IN  Request(url, url)

\* url = f"{self.BASE_URL}api-downloads"
get_metadata_downloads ==
    LET url == <<BASE_URL, "api-downloads">>
    IN  Request(url, url)

\* url = f"{self.BASE_URL}api-variables"
get_metadata_variables ==
    LET url == <<BASE_URL, "api-variables">>
    IN  Request(url, url)

\* url = f"{self.BASE_URL}api-endpoint-varlist"
get_metadata_endpoint_varlist ==
    LET url == <<BASE_URL, "api-endpoint-varlist">>
    IN  Request(url, url)

\* url = f"{self.BASE_URL}schools/ccd/directory/{year}/"; the filters are appended as the query.
get_ccd_directory(year, kwargs) ==
    LET url == <<BASE_URL, "schools", "/", "ccd", "/", "directory", "/", ToString(year), "/">>
    IN  Request(url, AppendQuery(url, kwargs))

\* url = f"{self.BASE_URL}schools/crdc/directory/{year}/"; the filters are appended as the query.
get_crdc_directory(year, kwargs) ==
    LET url == <<BASE_URL, "schools", "/", "crdc", "/", "directory", "/", ToString(year), "/">>
    IN  Request(url, AppendQuery(url, kwargs))

\* url = f"{self.BASE_URL}schools/crdc/discipline-instances/{year}/"; the filters are appended as the query.
get_crdc_discipline(year, kwargs) ==
    LET url == <<BASE_URL, "schools", "/", "crdc", "/", "discipline-instances", "/", ToString(year), "/">>
    IN  Request(url, AppendQuery(url, kwargs))

\* url = f"{self.BASE_URL}schools/crdc/harassment-or-bullying/{year}/allegations/"; the filters are appended as the query.
get_crdc_bullying_allegations(year, kwargs) ==
    LET url == <<BASE_URL, "schools", "/", "crdc", "/", "harassment-or-bullying", "/", ToString(year), "/", "allegations", "/">>
    IN  Request(url, AppendQuery(url, kwargs))

\* url = f"{self.BASE_URL}schools/crdc/restraint-and-seclusion/{year}/instances/"; the filters are appended as the query.
get_crdc_restraint_instances(year, kwargs) ==
    LET url == <<BASE_URL, "schools", "/", "crdc", "/", "restraint-and-seclusion", "/", ToString(year), "/", "instances", "/">>
    IN  Request(url, AppendQuery(url, kwargs))

\* url = f"{self.BASE_URL}schools/crdc/teachers-staff/{year}/"; the filters are appended as the query.
get_crdc_staff(year, kwargs) ==
    LET url == <<BASE_URL, "schools", "/", "crdc", "/", "teachers-staff", "/", ToString(year), "/">>
    IN  Request(url, AppendQuery(url, kwargs))

\* url = f"{self.BASE_URL}schools/crdc/offenses/{year}/"; the filters are appended as the query.
get_crdc_offenses(year, kwargs) ==
    LET url == <<BASE_URL, "schools", "/", "crdc", "/", "offenses", "/", ToString(year), "/">>
    IN  Request(url, AppendQuery(url, kwargs))

\* url = f"{self.BASE_URL}schools/crdc/credit-recovery/{year}/"; the filters are appended as the query.
get_crdc_credit_recovery(year, kwargs) ==
    LET url == <<BASE_URL, "schools", "/", "crdc", "/", "credit-recovery", "/", ToString(year), "/">>
    IN  Request(url, AppendQuery(url, kwargs))

\* url = f"{self.BASE_URL}schools/crdc/offerings/{year}/"; the filters are appended as the query.
get_crdc_offerings(year, kwargs) ==
    LET url == <<BASE_URL, "schools", "/", "crdc", "/", "offerings", "/", ToString(year), "/">>
    IN  Request(url, AppendQuery(url, kwargs))

\* url = f"{self.BASE_URL}schools/crdc/school-finance/{year}/"; the filters are appended as the query.
get_crdc_school_finance(year, kwargs) ==
    LET url == <<BASE_URL, "schools", "/", "crdc", "/", "school-finance", "/", ToString(year), "/">>
    IN  Request(url, AppendQuery(url, kwargs))

\* url = f"{self.BASE_URL}schools/edfacts/assessments/{year}/grade-{grade_edfacts}/"; the filters are appended as the query.
get_edfacts_state_assessments(year, grade_edfacts, kwargs) ==
    LET url == <<BASE_URL, "schools", "/", "edfacts", "/", "assessments", "/", ToString(year), "/", "grade-", ToString(grade_edfacts), "/">>
    IN  Request(url, AppendQuery(url, kwargs))

\* url = f"{self.BASE_URL}schools/edfacts/grad-rates/{year}/"; the filters are appended as the query.
get_edfacts_adjust_grad_rates(year, kwargs) ==
    LET url == <<BASE_URL, "schools", "/", "edfacts", "/", "grad-rates", "/", ToString(year), "/">>
    IN  Request(url, AppendQuery(url, kwargs))

\* --------------------------- methods that validate segment flags by a cascade

\* A variant of get_ccd_enrollment that tests race before it tests race and sex.
get_ccd_enrollment_race_first(year, grade, race, sex, kwargs) ==
    LET base == <<BASE_URL, "schools", "/", "ccd", "/", "enrollment", "/", ToString(year), "/", "grade-", ToString(grade), "/">>
        url ==
            IF Truthy(race)
            THEN base \o <<"race", "/">>
            ELSE IF Truthy(race) /\ Truthy(sex)
            THEN base \o <<"race", "/", "sex", "/">>
            ELSE IF Truthy(sex)
            THEN base \o <<"sex", "/">>
            ELSE base
    IN  Request(base, AppendQuery(url, kwargs))

get_ccd_enrollment(year, grade, race, sex, kwargs) ==
    LET base == <<BASE_URL, "schools", "/", "ccd", "/", "enrollment", "/", ToString(year), "/", "grade-", ToString(grade), "/">>
        url ==
            IF Truthy(race) /\ Truthy(sex)
            THEN base \o <<"race", "/", "sex", "/">>
            ELSE IF Truthy(race)
            THEN base \o <<"race", "/">>
            ELSE IF Truthy(sex)
            THEN base \o <<"sex", "/">>
            ELSE base
    IN  Request(base, AppendQuery(url, kwargs))

\* A variant of get_crdc_enrollment without the branch for sex alone.
get_crdc_enrollment_without_sex_branch(year, race_segment, sex_segment, disability_segment, lep_segment, kwargs) ==
    IF race_segment /\ ~sex_segment
    THEN Raise("ValueError", <<"Race can only be combined with sex.">>)
    ELSE IF disability_segment /\ ~sex_segment
    THEN Raise("ValueError", <<"Disability can only be combined with sex.">>)
    ELSE IF lep_segment /\ ~sex_segment
    THEN Raise("ValueError", <<"LEP can only be combined with sex.">>)
    ELSE IF (race_segment /\ disability_segment) \/ (race_segment /\ lep_segment) \/ (disability_segment /\ lep_segment)
    THEN Raise("ValueError", <<"Only the combinations (", "race and sex", "), (", "disability and sex", "), and (", "lep and sex", ") are allowed.">>)
    ELSE LET base == <<BASE_URL, "schools", "/", "crdc", "/", "enrollment", "/", ToString(year), "/">>
             url ==
                 IF race_segment /\ sex_segment
                 THEN base \o <<"race", "/", "sex", "/">>
                 ELSE IF disability_segment /\ sex_segment
                 THEN base \o <<"disability", "/", "sex", "/">>
                 ELSE IF lep_segment /\ sex_segment
                 THEN base \o <<"lep", "/", "sex", "/">>
                 ELSE base
         IN  Request(base, AppendQuery(url, kwargs))

get_crdc_enrollment(year, race_segment, sex_segment, disability_segment, lep_segment, kwargs) ==
    IF race_segment /\ ~sex_segment
    THEN Raise("ValueError", <<"Race can only be combined with sex.">>)
    ELSE IF disability_segment /\ ~sex_segment
    THEN Raise("ValueError", <<"Disability can only be combined with sex.">>)
    ELSE IF lep_segment /\ ~sex_segment
    THEN Raise("ValueError", <<"LEP can only be combined with sex.">>)
    ELSE IF (race_segment /\ disability_segment) \/ (race_segment /\ lep_segment) \/ (disability_segment /\ lep_segment)
    THEN Raise("ValueError", <<"Only the combinations (", "race and sex", "), (", "disability and sex", "), and (", "lep and sex", ") are allowed.">>)
    ELSE LET base == <<BASE_URL, "schools", "/", "crdc", "/", "enrollment", "/", ToString(year), "/">>
             url ==
                 IF race_segment /\ sex_segment
                 THEN base \o <<"race", "/", "sex", "/">>
                 ELSE IF disability_segment /\ sex_segment
                 THEN base \o <<"disability", "/", "sex", "/">>
                 ELSE IF lep_segment /\ sex_segment
                 THEN base \o <<"lep", "/", "sex", "/">>
                 ELSE IF sex_segment
                 THEN base \o <<"sex", "/">>
                 ELSE base
         IN  Request(base, AppendQuery(url, kwargs))

\* A variant of get_crdc_discipline_segment that makes the check of race with
\* lep first.
get_crdc_discipline_segment_race_lep_first(year, disability_segment, sex_segment, race_segment, lep_segment, kwargs) ==
    IF (race_segment /\ lep_segment)
    THEN Raise("ValueError", <<"Race and LEP cannot be combined together.">>)
    ELSE IF disability_segment /\ ~sex_segment
    THEN Raise("ValueError", <<"Disability can only be combined with sex.">>)
    ELSE IF race_segment /\ ~(disability_segment /\ sex_segment)
    THEN Raise("ValueError", <<"Race can only be combined with ", "disability and sex", ".">>)
    ELSE IF lep_segment /\ ~(disability_segment /\ sex_segment)
    THEN Raise("ValueError", <<"LEP can only be combined with ", "disability and sex", ".">>)
    ELSE IF ~(disability_segment /\ sex_segment)
    THEN Raise("ValueError", <<"At least ", "disability and sex", " must be combined.">>)
    ELSE LET base == <<BASE_URL, "schools", "/", "crdc", "/", "discipline", "/", ToString(year), "/">>
             url ==
                 IF disability_segment /\ sex_segment /\ race_segment
                 THEN base \o <<"disability", "/", "race", "/", "sex", "/">>
                 ELSE IF disability_segment /\ sex_segment /\ lep_segment
                 THEN base \o <<"disability", "/", "lep", "/", "sex", "/">>
                 ELSE IF disability_segment /\ sex_segment
                 THEN base \o <<"disability", "/", "sex", "/">>
                 ELSE base
         IN  Request(base, AppendQuery(url, kwargs))

get_crdc_discipline_segment(year, disability_segment, sex_segment, race_segment, lep_segment, kwargs) ==
    IF disability_segment /\ ~sex_segment
    THEN Raise("ValueError", <<"Disability can only be combined with sex.">>)
    ELSE IF race_segment /\ ~(disability_segment /\ sex_segment)
    THEN Raise("ValueError", <<"Race can only be combined with ", "disability and sex", ".">>)
    ELSE IF lep_segment /\ ~(disability_segment /\ sex_segment)
    THEN Raise("ValueError", <<"LEP can only be combined with ", "disability and sex", ".">>)
    ELSE IF (race_segment /\ lep_segment)
    THEN Raise("ValueError", <<"Race and LEP cannot be combined together.">>)
    ELSE IF ~(disability_segment /\ sex_segment)
    THEN Raise("ValueError", <<"At least ", "disability and sex", " must be combined.">>)
    ELSE LET base == <<BASE_URL, "schools", "/", "crdc", "/", "discipline", "/", ToString(year), "/">>
             url ==
                 IF disability_segment /\ sex_segment /\ race_segment
                 THEN base \o <<"disability", "/", "race", "/", "sex", "/">>
                 ELSE IF disability_segment /\ sex_segment /\ lep_segment
                 THEN base \o <<"disability", "/", "lep", "/", "sex", "/">>
                 ELSE IF disability_segment /\ sex_segment
                 THEN base \o <<"disability", "/", "sex", "/">>
                 ELSE base
         IN  Request(base, AppendQuery(url, kwargs))

get_crdc_bullying_segment(year, race_segment, sex_segment, disability_segment, lep_segment, kwargs) ==
    IF race_segment /\ ~sex_segment
    THEN Raise("ValueError", <<"Race can only be combined with sex.">>)
    ELSE IF disability_segment /\ ~sex_segment
    THEN Raise("ValueError", <<"Disability can only be combined with sex.">>)
    ELSE IF lep_segment /\ ~sex_segment
    THEN Raise("ValueError", <<"LEP can only be combined with sex.">>)
    ELSE IF (race_segment /\ disability_segment) \/ (race_segment /\ lep_segment) \/ (disability_segment /\ lep_segment)
    THEN Raise("ValueError", <<"Only the combinations (", "race and sex", "), (", "disability and sex", "), and (", "lep and sex", ") are allowed.">>)
    ELSE LET base == <<BASE_URL, "schools", "/", "crdc", "/", "harassment-or-bullying", "/", ToString(year), "/">>
             url ==
                 IF race_segment /\ sex_segment
                 THEN base \o <<"race", "/", "sex", "/">>
                 ELSE IF disability_segment /\ sex_segment
                 THEN base \o <<"disability", "/", "sex", "/">>
                 ELSE IF lep_segment /\ sex_segment
                 THEN base \o <<"lep", "/", "sex", "/">>
                 ELSE base
         IN  Request(base, AppendQuery(url, kwargs))

\* A variant of get_crdc_absenteeism_segment that tests lep_segment where the
\* code tests race_segment, and race_segment where it tests lep_segment.
get_crdc_absenteeism_segment_lep_for_race(year, race_segment, sex_segment, disability_segment, lep_segment, kwargs) ==
    get_crdc_bullying_segment(year, lep_segment, sex_segment, disability_segment, race_segment, kwargs)

get_crdc_absenteeism_segment(year, race_segment, sex_segment, disability_segment, lep_segment, kwargs) ==
    IF race_segment /\ ~sex_segment
    THEN Raise("ValueError", <<"Race can only be combined with sex.">>)
    ELSE IF disability_segment /\ ~sex_segment
    THEN Raise("ValueError", <<"Disability can only be combined with sex.">>)
    ELSE IF lep_segment /\ ~sex_segment
    THEN Raise("ValueError", <<"LEP can only be combined with sex.">>)
    ELSE IF (race_segment /\ disability_segment) \/ (race_segment /\ lep_segment) \/ (disability_segment /\ lep_segment)
    THEN Raise("ValueError", <<"Only the combinations (", "race and sex", "), (", "disability and sex", "), and (", "lep and sex", ") are allowed.">>)
    ELSE LET base == <<BASE_URL, "schools", "/", "crdc", "/", "chronic-absenteeism", "/", ToString(year), "/">>
             url ==
                 IF race_segment /\ sex_segment
                 THEN base \o <<"race", "/", "sex", "/">>
                 ELSE IF disability_segment /\ sex_segment
                 THEN base \o <<"disability", "/", "sex", "/">>
                 ELSE IF lep_segment /\ sex_segment
                 THEN base \o <<"lep", "/", "sex", "/">>
                 ELSE base
         IN  Request(base, AppendQuery(url, kwargs))

\* A variant of get_crdc_restraint_segment that tests lep_segment where the code
\* tests race_segment, and race_segment where it tests lep_segment.
get_crdc_restraint_segment_lep_for_race(year, disability_segment, sex_segment, race_segment, lep_segment, kwargs) ==
    get_crdc_discipline_segment(year, disability_segment, sex_segment, lep_segment, race_segment, kwargs)

\* A variant of get_crdc_restraint_segment with the body of the cascade methods
\* in place of its own.
get_crdc_restraint_segment_cascade(year, disability_segment, sex_segment, race_segment, lep_segment, kwargs) ==
    get_crdc_bullying_segment(year, race_segment, sex_segment, disability_segment, lep_segment, kwargs)

get_crdc_restraint_segment(year, disability_segment, sex_segment, race_segment, lep_segment, kwargs) ==
    IF disability_segment /\ ~sex_segment
    THEN Raise("ValueError", <<"Disability can only be combined with sex.">>)
    ELSE IF race_segment /\ ~(disability_segment /\ sex_segment)
    THEN Raise("ValueError", <<"Race can only be combined with ", "disability and sex", ".">>)
    ELSE IF lep_segment /\ ~(disability_segment /\ sex_segment)
    THEN Raise("ValueError", <<"LEP can only be combined with ", "disability and sex", ".">>)
    ELSE IF (race_segment /\ lep_segment)
    THEN Raise("ValueError", <<"Race and LEP cannot be combined together.">>)
    ELSE IF ~(disability_segment /\ sex_segment)
    THEN Raise("ValueError", <<"At least ", "disability and sex", " must be combined.">>)
    ELSE LET base == <<BASE_URL, "schools", "/", "crdc", "/", "restraint-and-seclusion", "/", ToString(year), "/">>
             url ==
                 IF disability_segment /\ sex_segment /\ race_segment
                 THEN base \o <<"disability", "/", "race", "/", "sex", "/">>
                 ELSE IF disability_segment /\ sex_segment /\ lep_segment
                 THEN base \o <<"disability", "/", "lep", "/", "sex", "/">>
                 ELSE IF disability_segment /\ sex_segment
                 THEN base \o <<"disability", "/", "sex", "/">>
                 ELSE base
         IN  Request(base, AppendQuery(url, kwargs))

get_crdc_advanced_enrollment_segment(year, race_segment, sex_segment, disability_segment, lep_segment, kwargs) ==
    IF race_segment /\ ~sex_segment
    THEN Raise("ValueError", <<"Race can only be combined with sex.">>)
    ELSE IF disability_segment /\ ~sex_segment
    THEN Raise("ValueError", <<"Disability can only be combined with sex.">>)
    ELSE IF lep_segment /\ ~sex_segment
    THEN Raise("ValueError", <<"LEP can only be combined with sex.">>)
    ELSE IF (race_segment /\ disability_segment) \/ (race_segment /\ lep_segment) \/ (disability_segment /\ lep_segment)
    THEN Raise("ValueError", <<"Only the combinations (", "race and sex", "), (", "disability and sex", "), and (", "lep and sex", ") are allowed.">>)
    ELSE LET base == <<BASE_URL, "schools", "/", "crdc", "/", "ap-ib-enrollment", "/", ToString(year), "/">>
             url ==
                 IF race_segment /\ sex_segment
                 THEN base \o <<"race", "/", "sex", "/">>
                 ELSE IF disability_segment /\ sex_segment
                 THEN base \o <<"disability", "/", "sex", "/">>
                 ELSE IF lep_segment /\ sex_segment
                 THEN base \o <<"lep", "/", "sex", "/">>
                 ELSE base
         IN  Request(base, AppendQuery(url, kwargs))

\* A variant of get_crdc_ap_segment with the body of get_crdc_enrollment, which
\* has a fragment for sex alone.
get_crdc_ap_segment_with_sex_alone(year, race_segment, sex_segment, disability_segment, lep_segment, kwargs) ==
    get_crdc_enrollment(year, race_segment, sex_segment, disability_segment, lep_segment, kwargs)

get_crdc_ap_segment(year, race_segment, sex_segment, disability_segment, lep_segment, kwargs) ==
    IF race_segment /\ ~sex_segment
    THEN Raise("ValueError", <<"Race can only be combined with sex.">>)
    ELSE IF disability_segment /\ ~sex_segment
    THEN Raise("ValueError", <<"Disability can only be combined with sex.">>)
    ELSE IF lep_segment /\ ~sex_segment
    THEN Raise("ValueError", <<"LEP can only be combined with sex.">>)
    ELSE IF (race_segment /\ disability_segment) \/ (race_segment /\ lep_segment) \/ (disability_segment /\ lep_segment)
    THEN Raise("ValueError", <<"Only the combinations (", "race and sex", "), (", "disability and sex", "), and (", "lep and sex", ") are allowed.">>)
    ELSE LET base == <<BASE_URL, "schools", "/", "crdc", "/", "ap-exams", "/", ToString(year), "/">>
             url ==
                 IF race_segment /\ sex_segment
                 THEN base \o <<"race", "/", "sex", "/">>
                 ELSE IF disability_segment /\ sex_segment
                 THEN base \o <<"disability", "/", "sex", "/">>
                 ELSE IF lep_segment /\ sex_segment
                 THEN base \o <<"lep", "/", "sex", "/">>
                 ELSE base
         IN  Request(base, AppendQuery(url, kwargs))

get_crdc_college_exam_segment(year, race_segment, sex_segment, disability_segment, lep_segment, kwargs) ==
    IF race_segment /\ ~sex_segment
    THEN Raise("ValueError", <<"Race can only be combined with sex.">>)
    ELSE IF disability_segment /\ ~sex_segment
    THEN Raise("ValueError", <<"Disability can only be combined with sex.">>)
    ELSE IF lep_segment /\ ~sex_segment
    THEN Raise("ValueError", <<"LEP can only be combined with sex.">>)
    ELSE IF (race_segment /\ disability_segment) \/ (race_segment /\ lep_segment) \/ (disability_segment /\ lep_segment)
    THEN Raise("ValueError", <<"Only the combinations (", "race and sex", "), (", "disability and sex", "), and (", "lep and sex", ") are allowed.">>)
    ELSE LET base == <<BASE_URL, "schools", "/", "crdc", "/", "sat-act-participation", "/", ToString(year), "/">>
             url ==
                 IF race_segment /\ sex_segment
                 THEN base \o <<"race", "/", "sex", "/">>
                 ELSE IF disability_segment /\ sex_segment
                 THEN base \o <<"disability", "/", "sex", "/">>
                 ELSE IF lep_segment /\ sex_segment
                 THEN base \o <<"lep", "/", "sex", "/">>
                 ELSE base
         IN  Request(base, AppendQuery(url, kwargs))

get_crdc_math_science_enrollment_segment(year, race_segment, sex_segment, disability_segment, lep_segment, kwargs) ==
    IF race_segment /\ ~sex_segment
    THEN Raise("ValueError", <<"Race can only be combined with sex.">>)
    ELSE IF disability_segment /\ ~sex_segment
    THEN Raise("ValueError", <<"Disability can only be combined with sex.">>)
    ELSE IF lep_segment /\ ~sex_segment
    THEN Raise("ValueError", <<"LEP can only be combined with sex.">>)
    ELSE IF (race_segment /\ disability_segment) \/ (race_segment /\ lep_segment) \/ (disability_segment /\ lep_segment)
    THEN Raise("ValueError", <<"Only the combinations (", "race and sex", "), (", "disability and sex", "), and (", "lep and sex", ") are allowed.">>)
    ELSE LET base == <<BASE_URL, "schools", "/", "crdc", "/", "math-and-science", "/", ToString(year), "/">>
             url ==
                 IF race_segment /\ sex_segment
                 THEN base \o <<"race", "/", "sex", "/">>
                 ELSE IF disability_segment /\ sex_segment
                 THEN base \o <<"disability", "/", "sex", "/">>
                 ELSE IF lep_segment /\ sex_segment
                 THEN base \o <<"lep", "/", "sex", "/">>
                 ELSE base
         IN  Request(base, AppendQuery(url, kwargs))

get_crdc_algebra_enrollment_segment(year, race_segment, sex_segment, disability_segment, lep_segment, kwargs) ==
    IF race_segment /\ ~sex_segment
    THEN Raise("ValueError", <<"Race can only be combined with sex.">>)
    ELSE IF disability_segment /\ ~sex_segment
    THEN Raise("ValueError", <<"Disability can only be combined with sex.">>)
    ELSE IF lep_segment /\ ~sex_segment
    THEN Raise("ValueError", <<"LEP can only be combined with sex.">>)
    ELSE IF (race_segment /\ disability_segment) \/ (race_segment /\ lep_segment) \/ (disability_segment /\ lep_segment)
    THEN Raise("ValueError", <<"Only the combinations (", "race and sex", "), (", "disability and sex", "), and (", "lep and sex", ") are allowed.">>)
    ELSE LET base == <<BASE_URL, "schools", "/", "crdc", "/", "algebra1", "/", ToString(year), "/">>
             url ==
                 IF race_segment /\ sex_segment
                 THEN base \o <<"race", "/", "sex", "/">>
                 ELSE IF disability_segment /\ sex_segment
                 THEN base \o <<"disability", "/", "sex", "/">>
                 ELSE IF lep_segment /\ sex_segment
                 THEN base \o <<"lep", "/", "sex", "/">>
                 ELSE base
         IN  Request(base, AppendQuery(url, kwargs))

\* A variant of get_crdc_dual_enrollment_segment with the body of
\* get_crdc_bullying_segment, whose fragments end with "/".
get_crdc_dual_enrollment_segment_slashed(year, race_segment, sex_segment, disability_segment, lep_segment, kwargs) ==
    get_crdc_bullying_segment(year, race_segment, sex_segment, disability_segment, lep_segment, kwargs)

get_crdc_dual_enrollment_segment(year, race_segment, sex_segment, disability_segment, lep_segment, kwargs) ==
    IF race_segment /\ ~sex_segment
    THEN Raise("ValueError", <<"Race can only be combined with sex.">>)
    ELSE IF disability_segment /\ ~sex_segment
    THEN Raise("ValueError", <<"Disability can only be combined with sex.">>)
    ELSE IF lep_segment /\ ~sex_segment
    THEN Raise("ValueError", <<"LEP can only be combined with sex.">>)
    ELSE IF (race_segment /\ disability_segment) \/ (race_segment /\ lep_segment) \/ (disability_segment /\ lep_segment)
    THEN Raise("ValueError", <<"Only the combinations (", "race and sex", "), (", "disability and sex", "), and (", "lep and sex", ") are allowed.">>)
    ELSE LET base == <<BASE_URL, "schools", "/", "crdc", "/", "dual-enrollment", "/", ToString(year), "/">>
             url ==
                 IF race_segment /\ sex_segment
                 THEN base \o <<"race", "/", "sex">>
                 ELSE IF disability_segment /\ sex_segment
                 THEN base \o <<"disability", "/", "sex">>
                 ELSE IF lep_segment /\ sex_segment
                 THEN base \o <<"lep", "/", "sex">>
                 ELSE base
         IN  Request(base, AppendQuery(url, kwargs))

\* ------------------------------------------------ methods with their own logic

\* The summary endpoint: var, stat and by always form the query; the filters
\* follow them.
get_ccd_summary(var, stat, by, kwargs) ==
    LET url == <<BASE_URL, "schools", "/", "ccd", "/", "directory", "/", "summaries", "?">>
        query_params == <<"var", "=", var, "&", "stat", "=", stat, "&", "by", "=", by>>
        with_filters ==
            IF kwargs # <<>>
            THEN query_params \o <<"&">> \o JoinAmp(kwargs)
            ELSE query_params
    IN  Request(url, url \o with_filters)

\* The local `segments` of get_crdc_days_suspended_segment before any branch
\* of the inner if/elif chain has assigned it.
Unbound == <<"<unbound>">>

\* A variant of get_crdc_days_suspended_segment whose outer condition asks for
\* sex_segment only.
get_crdc_days_suspended_segment_sex_suffices(year, race_segment, sex_segment, disability_segment, lep_segment, kwargs) ==
    IF sex_segment
    THEN LET segments ==
                 IF race_segment /\ sex_segment
                 THEN <<"race", "/", "sex">>
                 ELSE IF disability_segment /\ sex_segment
                 THEN <<"disability", "/", "sex">>
                 ELSE IF lep_segment /\ sex_segment
                 THEN <<"lep", "/", "sex">>
                 ELSE Unbound
             base == <<BASE_URL, "schools", "/", "crdc", "/", "suspensions-days", "/", ToString(year), "/">>
             url == base \o segments \o <<"/">>
         IN  IF segments = Unbound
             THEN Raise("UnboundLocalError", <<"segments">>)
             ELSE Request(base, AppendQuery(url, kwargs))
    ELSE Raise("ValueError", <<"Invalid segment combination. Valid combinations are: ", "race and sex", ", ", "disability and sex", ", ", "LEP and sex", ".">>)

get_crdc_days_suspended_segment(year, race_segment, sex_segment, disability_segment, lep_segment, kwargs) ==
    IF \/ (race_segment /\ sex_segment /\ ~disability_segment /\ ~lep_segment)
       \/ (disability_segment /\ sex_segment /\ ~race_segment /\ ~lep_segment)
       \/ (lep_segment /\ sex_segment /\ ~race_segment /\ ~disability_segment)
    THEN LET segments ==
                 IF race_segment /\ sex_segment
                 THEN <<"race", "/", "sex">>
                 ELSE IF disability_segment /\ sex_segment
                 THEN <<"disability", "/", "sex">>
                 ELSE IF lep_segment /\ sex_segment
                 THEN <<"lep", "/", "sex">>
                 ELSE Unbound
             base == <<BASE_URL, "schools", "/", "crdc", "/", "suspensions-days", "/", ToString(year), "/">>
             url == base \o segments \o <<"/">>
         IN  IF segments = Unbound
             THEN Raise("UnboundLocalError", <<"segments">>)
             ELSE Request(base, AppendQuery(url, kwargs))
    ELSE Raise("ValueError", <<"Invalid segment combination. Valid combinations are: ", "race and sex", ", ", "disability and sex", ", ", "LEP and sex", ".">>)

\* A variant of get_crdc_retention_segment with the body of the cascade methods
\* in place of its own.
get_crdc_retention_segment_cascade(year, grade, race_segment, sex_segment, disability_segment, lep_segment, kwargs) ==
    get_crdc_bullying_segment(year, race_segment, sex_segment, disability_segment, lep_segment, kwargs)

get_crdc_retention_segment(year, grade, race_segment, sex_segment, disability_segment, lep_segment, kwargs) ==
    LET base == <<BASE_URL, "schools", "/", "crdc", "/", "retention", "/", ToString(year), "/", "grade-", ToString(grade), "/">>
        WithSegments(segments) == Request(base, AppendQuery(base \o segments, kwargs))
    IN  IF race_segment /\ sex_segment /\ ~(disability_segment \/ lep_segment)
        THEN WithSegments(<<"race", "/", "sex">>)
        ELSE IF disability_segment /\ sex_segment /\ ~(race_segment \/ lep_segment)
        THEN WithSegments(<<"disability", "/", "sex">>)
        ELSE IF lep_segment /\ sex_segment /\ ~(race_segment \/ disability_segment)
        THEN WithSegments(<<"lep", "/", "sex">>)
        ELSE Raise("ValueError", <<"Invalid segment combination. Valid combinations are: ", "race and sex", ", ", "disability and sex", ", ", "LEP and sex", ".">>)

\* ', '.join(valid_segments)
RECURSIVE JoinComma(_)
JoinComma(names) ==
    IF names = <<>> THEN <<>>
    ELSE IF Len(names) = 1 THEN <<names[1]>>
    ELSE <<names[1], ", ">> \o JoinComma(Tail(names))

\* A variant of get_edfacts_state_assessment_segment whose list of valid
\* segments also holds "disability".
get_edfacts_state_assessment_segment_with_disability(year, grade_edfacts, segment, kwargs) ==
    LET valid_segments == <<"race", "sex", "special-populations", "disability">>
    IN  IF ~(\E i \in 1..Len(valid_segments) : valid_segments[i] = segment)
        THEN Raise("ValueError", <<"Invalid segment: ", segment, ". Valid segments are: ">> \o JoinComma(valid_segments))
        ELSE LET url == <<BASE_URL, "schools", "/", "edfacts", "/", "assessments", "/", ToString(year), "/", "grade-", ToString(grade_edfacts), "/", segment, "/">>
             IN  Request(url, AppendQuery(url, kwargs))

get_edfacts_state_assessment_segment(year, grade_edfacts, segment, kwargs) ==
    LET valid_segments == <<"race", "sex", "special-populations">>
    IN  IF ~(\E i \in 1..Len(valid_segments) : valid_segments[i] = segment)
        THEN Raise("ValueError", <<"Invalid segment: ", segment, ". Valid segments are: ">> \o JoinComma(valid_segments))
        ELSE LET url == <<BASE_URL, "schools", "/", "edfacts", "/", "assessments", "/", ToString(year), "/", "grade-", ToString(grade_edfacts), "/", segment, "/">>
             IN  Request(url, AppendQuery(url, kwargs))

\* A variant of get_nhgis_geographic_variables that also rejects a year outside
\* the years its docstring calls valid.
get_nhgis_geographic_variables_checking_year(endpoint, year, kwargs) ==
    LET valid_endpoints == <<"census-2010", "census-2000", "census-1990">>
    IN  IF ~(\E i \in 1..Len(valid_endpoints) : valid_endpoints[i] = endpoint)
        THEN Raise("ValueError", <<"Invalid endpoint. Valid endpoints are: ", "[", "'census-2010'", ", ", "'census-2000'", ", ", "'census-1990'", "]">>)
        ELSE IF year \notin 1986..2021
        THEN Raise("ValueError", <<"Invalid year.">>)
        ELSE LET url == <<BASE_URL, "schools", "/", "nhgis", "/", endpoint, "/", ToString(year), "/">>
             IN  Request(url, AppendQuery(url, kwargs))

get_nhgis_geographic_variables(endpoint, year, kwargs) ==
    LET valid_endpoints == <<"census-2010", "census-2000", "census-1990">>
    IN  IF ~(\E i \in 1..Len(valid_endpoints) : valid_endpoints[i] = endpoint)
        THEN Raise("ValueError", <<"Invalid endpoint. Valid endpoints are: ", "[", "'census-2010'", ", ", "'census-2000'", ", ", "'census-1990'", "]">>)
        ELSE LET url == <<BASE_URL, "schools", "/", "nhgis", "/", endpoint, "/", ToString(year), "/">>
             IN  Request(url, AppendQuery(url, kwargs))

\* A variant of get_meps_school_poverty in which the end of the range counts as
\* a valid year.
get_meps_school_poverty_through_2021(year, kwargs) ==
    IF year \notin 2013..2021
    THEN Raise("ValueError", <<"Invalid year. Valid years are from 2013 to 2020.">>)
    ELSE LET url == <<BASE_URL, "schools", "/", "meps", "/", ToString(year), "/">>
         IN  Request(url, AppendQuery(url, kwargs))

\* range(2013, 2021) holds the integers 2013 .. 2020.
get_meps_school_poverty(year, kwargs) ==
    IF year \notin 2013..(2021 - 1)
    THEN Raise("ValueError", <<"Invalid year. Valid years are from 2013 to 2020.">>)
    ELSE LET url == <<BASE_URL, "schools", "/", "meps", "/", ToString(year), "/">>
         IN  Request(url, AppendQuery(url, kwargs))

\* ------------------------------------------------------------------ inputs

SegmentFlags == {"race", "sex", "disability", "lep"}
\* The filters a caller may pass as keyword arguments: <<key, value>>.
Filters ==
    { <<"fips", [int |-> 1]>>, <<"race", [int |-> 3]>>, <<"state_location", [str |-> "AL"]>> }
FilterKeys == {f[1] : f \in Filters}
Years == {2013, 2017}
MepsYears == {2012, 2013, 2020, 2021}
\* Years for get_nhgis_geographic_variables, one of them before the years
\* 1986-2021 that its docstring calls valid.
NhgisYears == Years \cup {1985}
Grades == {8}
EdfactsSegments == {"race", "sex", "special-populations", "disability"}
NhgisEndpoints == {"census-2010", "census-2000", "census-1990", "census-2020"}
SummaryStats == {"sum", "invalid_stat"}
\* Values a caller may pass for the race and sex parameters of get_ccd_enrollment.
EnrollmentArgs == {[bool |-> FALSE], [bool |-> TRUE], [int |-> 3]}

\* The **kwargs a caller can write with the given keys: every sequence of at most
\* MaxFilters <<key, value>> pairs whose keys are distinct.
KwargsOver(keys) ==
    {kw \in UNION {[1..n -> {f \in Filters : f[1] \in keys}] : n \in 0..MaxFilters} :
        \A i, j \in 1..Len(kw) : i # j => kw[i][1] # kw[j][1]}

MetadataMethods ==
    {"get_metadata_endpoints", "get_metadata_downloads", "get_metadata_variables",
     "get_metadata_endpoint_varlist"}
YearMethods ==
    {"get_ccd_directory", "get_crdc_directory", "get_crdc_discipline",
     "get_crdc_bullying_allegations", "get_crdc_restraint_instances", "get_crdc_staff",
     "get_crdc_offenses", "get_crdc_credit_recovery", "get_crdc_offerings",
     "get_crdc_school_finance", "get_edfacts_adjust_grad_rates"}
CascadeMethods ==
    {"get_crdc_enrollment", "get_crdc_bullying_segment", "get_crdc_absenteeism_segment",
     "get_crdc_advanced_enrollment_segment", "get_crdc_ap_segment",
     "get_crdc_college_exam_segment", "get_crdc_math_science_enrollment_segment",
     "get_crdc_algebra_enrollment_segment", "get_crdc_dual_enrollment_segment"}
AnchorMethods == {"get_crdc_discipline_segment", "get_crdc_restraint_segment"}
ExactMethods == {"get_crdc_days_suspended_segment", "get_crdc_retention_segment"}
\* The methods that take the four boolean segment flags.
FlagMethods == CascadeMethods \cup AnchorMethods \cup ExactMethods

\* A call is the method's name with the arguments of its signature.  The
\* boolean flags are given as the set of the flags passed as True.
MetadataCalls == [method : MetadataMethods]
YearCalls == [method : YearMethods, year : Years, kwargs : KwargsOver(FilterKeys)]
SummaryCalls ==
    [method : {"get_ccd_summary"}, var : {"enrollment"}, stat : SummaryStats,
     by : {"school_level"}, kwargs : KwargsOver(FilterKeys)]
CcdEnrollmentCalls ==
    [method : {"get_ccd_enrollment"}, year : Years, grade : Grades,
     race : EnrollmentArgs, sex : EnrollmentArgs,
     kwargs : KwargsOver(FilterKeys \ {"race", "sex"})]
FlagCalls ==
    [method : FlagMethods \ {"get_crdc_retention_segment"}, year : Years,
     flags : SUBSET SegmentFlags, kwargs : KwargsOver(FilterKeys)]
RetentionCalls ==
    [method : {"get_crdc_retention_segment"}, year : Years, grade : Grades,
     flags : SUBSET SegmentFlags, kwargs : KwargsOver(FilterKeys)]
EdfactsCalls ==
    [method : {"get_edfacts_state_assessments"}, year : Years, grade_edfacts : Grades,
     kwargs : KwargsOver(FilterKeys)]
EdfactsSegmentCalls ==
    [method : {"get_edfacts_state_assessment_segment"}, year : Years,
     grade_edfacts : Grades, segment : EdfactsSegments, kwargs : KwargsOver(FilterKeys)]
NhgisCalls ==
    [method : {"get_nhgis_geographic_variables"}, endpoint : NhgisEndpoints,
     year : NhgisYears, kwargs : KwargsOver(FilterKeys)]
MepsCalls ==
    [method : {"get_meps_school_poverty"}, year : MepsYears, kwargs : KwargsOver(FilterKeys)]

Calls ==
    MetadataCalls \cup YearCalls \cup SummaryCalls \cup CcdEnrollmentCalls \cup FlagCalls
    \cup RetentionCalls \cup EdfactsCalls \cup EdfactsSegmentCalls \cup NhgisCalls
    \cup MepsCalls

NoCall == [method |-> "none"]

\* Python binds the arguments of call c to the parameters of c.method and runs
\* its body up to the request.
Bind(c) ==
    LET m == c.method
        F(flag) == flag \in c.flags
    IN  CASE m = "get_metadata_endpoints" -> get_metadata_endpoints
          [] m = "get_metadata_downloads" -> get_metadata_downloads
          [] m = "get_metadata_variables" -> get_metadata_variables
          [] m = "get_metadata_endpoint_varlist" -> get_metadata_endpoint_varlist
          [] m = "get_ccd_directory" -> get_ccd_directory(c.year, c.kwargs)
          [] m = "get_ccd_summary" -> get_ccd_summary(c.var, c.stat, c.by, c.kwargs)
          [] m = "get_ccd_enrollment" ->
                get_ccd_enrollment(c.year, c.grade, c.race, c.sex, c.kwargs)
          [] m = "get_crdc_directory" -> get_crdc_directory(c.year, c.kwargs)
          [] m = "get_crdc_enrollment" ->
                get_crdc_enrollment(c.year, F("race"), F("sex"), F("disability"), F("lep"), c.kwargs)
          [] m = "get_crdc_discipline" -> get_crdc_discipline(c.year, c.kwargs)
          [] m = "get_crdc_discipline_segment" ->
                get_crdc_discipline_segment(c.year, F("disability"), F("sex"), F("race"), F("lep"), c.kwargs)
          [] m = "get_crdc_bullying_allegations" -> get_crdc_bullying_allegations(c.year, c.kwargs)
          [] m = "get_crdc_bullying_segment" ->
                get_crdc_bullying_segment(c.year, F("race"), F("sex"), F("disability"), F("lep"), c.kwargs)
          [] m = "get_crdc_absenteeism_segment" ->
                get_crdc_absenteeism_segment(c.year, F("race"), F("sex"), F("disability"), F("lep"), c.kwargs)
          [] m = "get_crdc_restraint_instances" -> get_crdc_restraint_instances(c.year, c.kwargs)
          [] m = "get_crdc_restraint_segment" ->
                get_crdc_restraint_segment(c.year, F("disability"), F("sex"), F("race"), F("lep"), c.kwargs)
          [] m = "get_crdc_advanced_enrollment_segment" ->
                get_crdc_advanced_enrollment_segment(c.year, F("race"), F("sex"), F("disability"), F("lep"), c.kwargs)
          [] m = "get_crdc_ap_segment" ->
                get_crdc_ap_segment(c.year, F("race"), F("sex"), F("disability"), F("lep"), c.kwargs)
          [] m = "get_crdc_college_exam_segment" ->
                get_crdc_college_exam_segment(c.year, F("race"), F("sex"), F("disability"), F("lep"), c.kwargs)
          [] m = "get_crdc_staff" -> get_crdc_staff(c.year, c.kwargs)
          [] m = "get_crdc_math_science_enrollment_segment" ->
                get_crdc_math_science_enrollment_segment(c.year, F("race"), F("sex"), F("disability"), F("lep"), c.kwargs)
          [] m = "get_crdc_algebra_enrollment_segment" ->
                get_crdc_algebra_enrollment_segment(c.year, F("race"), F("sex"), F("disability"), F("lep"), c.kwargs)
          [] m = "get_crdc_offenses" -> get_crdc_offenses(c.year, c.kwargs)
          [] m = "get_crdc_dual_enrollment_segment" ->
                get_crdc_dual_enrollment_segment(c.year, F("race"), F("sex"), F("disability"), F("lep"), c.kwargs)
          [] m = "get_crdc_credit_recovery" -> get_crdc_credit_recovery(c.year, c.kwargs)
          [] m = "get_crdc_days_suspended_segment" ->
                get_crdc_days_suspended_segment(c.year, F("race"), F("sex"), F("disability"), F("lep"), c.kwargs)
          [] m = "get_crdc_offerings" -> get_crdc_offerings(c.year, c.kwargs)
          [] m = "get_crdc_school_finance" -> get_crdc_school_finance(c.year, c.kwargs)
          [] m = "get_crdc_retention_segment" ->
                get_crdc_retention_segment(c.year, c.grade, F("race"), F("sex"), F("disability"), F("lep"), c.kwargs)
          [] m = "get_edfacts_state_assessments" ->
                get_edfacts_state_assessments(c.year, c.grade_edfacts, c.kwargs)
          [] m = "get_edfacts_state_assessment_segment" ->
                get_edfacts_state_assessment_segment(c.year, c.grade_edfacts, c.segment, c.kwargs)
          [] m = "get_edfacts_adjust_grad_rates" -> get_edfacts_adjust_grad_rates(c.year, c.kwargs)
          [] m = "get_nhgis_geographic_variables" ->
                get_nhgis_geographic_variables(c.endpoint, c.year, c.kwargs)
          [] m = "get_meps_school_poverty" -> get_meps_school_poverty(c.year, c.kwargs)

\* --------------------------------------- the reject-if checks as a sequence

\* The four checks that open each cascade method, in source order: what each
\* tests and the message it raises with.
CascadeChecks(race_segment, sex_segment, disability_segment, lep_segment) ==
    << [fails |-> race_segment /\ ~sex_segment,
        msg |-> <<"Race can only be combined with sex.">>],
       [fails |-> disability_segment /\ ~sex_segment,
        msg |-> <<"Disability can only be combined with sex.">>],
       [fails |-> lep_segment /\ ~sex_segment,
        msg |-> <<"LEP can only be combined with sex.">>],
       [fails |-> (race_segment /\ disability_segment) \/ (race_segment /\ lep_segment)
                    \/ (disability_segment /\ lep_segment),
        msg |-> <<"Only the combinations (", "race and sex", "), (", "disability and sex", "), and (", "lep and sex", ") are allowed.">>] >>

\* The five checks that open get_crdc_discipline_segment and
\* get_crdc_restraint_segment, in source order.
AnchorChecks(disability_segment, sex_segment, race_segment, lep_segment) ==
    << [fails |-> disability_segment /\ ~sex_segment,
        msg |-> <<"Disability can only be combined with sex.">>],
       [fails |-> race_segment /\ ~(disability_segment /\ sex_segment),
        msg |-> <<"Race can only be combined with ", "disability and sex", ".">>],
       [fails |-> lep_segment /\ ~(disability_segment /\ sex_segment),
        msg |-> <<"LEP can only be combined with ", "disability and sex", ".">>],
       [fails |-> race_segment /\ lep_segment,
        msg |-> <<"Race and LEP cannot be combined together.">>],
       [fails |-> ~(disability_segment /\ sex_segment),
        msg |-> <<"At least ", "disability and sex", " must be combined.">>] >>

\* A variant of Validate in which only the check that stands first is made.
Validate_first_check_only(checks) ==
    IF checks # <<>> /\ checks[1].fails
    THEN [raised |-> TRUE, msg |-> checks[1].msg]
    ELSE [raised |-> FALSE, msg |-> <<>>]

\* A run of `if ...: raise ValueError(...)` statements: the first check that
\* fails raises; when none fails the method goes on.
Validate(checks) ==
    LET failing == {i \in 1..Len(checks) : checks[i].fails}
    IN  IF failing = {}
        THEN [raised |-> FALSE, msg |-> <<>>]
        ELSE [raised |-> TRUE,
              msg |-> checks[CHOOSE i \in failing : \A j \in failing : i <= j].msg]

\* The checks of the method of call c, applied to the flags of c.
ChecksOf(c) ==
    IF c.method \in AnchorMethods
    THEN AnchorChecks("disability" \in c.flags, "sex" \in c.flags,
                      "race" \in c.flags, "lep" \in c.flags)
    ELSE CascadeChecks("race" \in c.flags, "sex" \in c.flags,
                       "disability" \in c.flags, "lep" \in c.flags)

\* ------------------------------------------------- the service and requests

\* What the service may answer: a status and the text of a body.  A body is
\* the sequence of its tokens, a JSON object being "{", its keys, "}".
Responses ==
    { [status |-> 200, body |-> <<"{", "results", "next", "}">>],
      [status |-> 200, body |-> <<"{", "error", "}">>],
      [status |-> 200, body |-> <<"{", "results">>],
      [status |-> 304, body |-> <<>>],
      [status |-> 304, body |-> <<"{", "results", "next", "}">>],
      [status |-> 404, body |-> <<"{", "error", "}">>],
      [status |-> 500, body |-> <<"<html>">>] }
NoResponse == [status |-> 0, body |-> <<>>]

\* requests.Response.raise_for_status raises HTTPError for a 4xx or 5xx status
\* and for no other.
\* A variant of raise_for_status that raises for a 5xx status only.
raise_for_status_5xx_only(status) == 500 <= status /\ status < 600

raise_for_status(status) == 400 <= status /\ status < 600

\* requests.Response.json: the decoded object (here the set of its keys), or a
\* JSONDecodeError when the text is not a JSON document.
json(body) ==
    IF Len(body) >= 2 /\ body[1] = "{" /\ body[Len(body)] = "}"
    THEN [ok |-> TRUE, doc |-> {body[i] : i \in 2..(Len(body) - 1)}]
    ELSE [ok |-> FALSE, doc |-> {}]

\* ------------------------------------------------------------------- state

Threads == {"main", "worker"}

VARIABLES
    pc,        \* per thread: where its current method call stands
    call,      \* per thread: the call in progress
    base,      \* per thread: the local url before a segment fragment is appended
    url,       \* per thread: the local url handed to session.get
    gets,      \* per thread: the URLs this call has passed to session.get, in order
    response,  \* per thread: the local response
    outcome,   \* per thread: how the call ended, for its caller
    probe      \* history: an earlier call, its verdict and the URLs it requested

\* The command-line program (src/main.py) and what it acts on.
VARIABLES
    mainpc,    \* where the process running main() stands
    output,    \* args.output
    dirs,      \* the directories in the working directory
    files,     \* the files below it: path |-> text
    stdout,    \* what the process has printed, one entry for each print
    started    \* history: dirs and files as they were when the process started

client == <<pc, call, base, url, gets, response, outcome, probe>>
program == <<mainpc, output, dirs, files, stdout, started>>
vars == <<pc, call, base, url, gets, response, outcome, probe,
          mainpc, output, dirs, files, stdout, started>>

NoOutcome == [kind |-> "none", exc |-> "none", msg |-> <<>>, value |-> {}]
Raised(exc, msg) == [kind |-> "raise", exc |-> exc, msg |-> msg, value |-> {}]
Returned(value) == [kind |-> "return", exc |-> "none", msg |-> <<>>, value |-> value]

NoProbe == [call |-> NoCall, outcome |-> NoOutcome, gets |-> <<>>]

\* __init__ only creates the session: no call is in progress.  The program of
\* src/main.py is not running.
Init ==
    /\ pc = [t \in Threads |-> "idle"]
    /\ call = [t \in Threads |-> NoCall]
    /\ base = [t \in Threads |-> <<>>]
    /\ url = [t \in Threads |-> <<>>]
    /\ gets = [t \in Threads |-> <<>>]
    /\ response = [t \in Threads |-> NoResponse]
    /\ outcome = [t \in Threads |-> NoOutcome]
    /\ probe = NoProbe
    /\ mainpc = "off"
    /\ output = FALSE
    /\ dirs = {}
    /\ files = <<>>
    /\ stdout = <<>>
    /\ started = [dirs |-> {}, files |-> <<>>]

\* ----------------------------------------------------------------- actions

\* A variant of Invoke in which the request goes out before the arguments are
\* validated.
Invoke_request_before_validation(t, c) ==
    /\ pc[t] = "idle"
    /\ call' = [call EXCEPT ![t] = c]
    /\ LET r == Bind(c)
       IN  IF r.exc # "none"
           THEN /\ pc' = [pc EXCEPT ![t] = "raised"]
                /\ gets' = [gets EXCEPT ![t] = <<<<BASE_URL>>>>]
                /\ outcome' = [outcome EXCEPT ![t] = Raised(r.exc, r.msg)]
                /\ UNCHANGED <<base, url>>
           ELSE /\ pc' = [pc EXCEPT ![t] = "request"]
                /\ gets' = [gets EXCEPT ![t] = <<>>]
                /\ base' = [base EXCEPT ![t] = r.base]
                /\ url' = [url EXCEPT ![t] = r.url]
                /\ UNCHANGED outcome
    /\ UNCHANGED <<response, probe>>
    /\ UNCHANGED program

\* A variant of Invoke in which the filters of the remembered call are still in
\* the mapping the new call's filters are added to.
Invoke_with_remembered_filters(t, c) ==
    /\ pc[t] = "idle"
    /\ call' = [call EXCEPT ![t] = c]
    /\ gets' = [gets EXCEPT ![t] = <<>>]
    /\ LET kept == IF "kwargs" \in DOMAIN probe.call THEN probe.call.kwargs ELSE <<>>
           r == IF "kwargs" \in DOMAIN c
                THEN Bind([c EXCEPT !.kwargs = kept \o c.kwargs])
                ELSE Bind(c)
       IN  IF r.exc # "none"
           THEN /\ pc' = [pc EXCEPT ![t] = "raised"]
                /\ outcome' = [outcome EXCEPT ![t] = Raised(r.exc, r.msg)]
                /\ UNCHANGED <<base, url>>
           ELSE /\ pc' = [pc EXCEPT ![t] = "request"]
                /\ base' = [base EXCEPT ![t] = r.base]
                /\ url' = [url EXCEPT ![t] = r.url]
                /\ UNCHANGED outcome
    /\ UNCHANGED <<response, probe>>
    /\ UNCHANGED program

\* Thread t calls a method: the body runs up to `response = self.session.get(url)`,
\* or raises before it.
Invoke(t, c) ==
    /\ pc[t] = "idle"
    /\ call' = [call EXCEPT ![t] = c]
    /\ gets' = [gets EXCEPT ![t] = <<>>]
    /\ LET r == Bind(c)
       IN  IF r.exc # "none"
           THEN /\ pc' = [pc EXCEPT ![t] = "raised"]
                /\ outcome' = [outcome EXCEPT ![t] = Raised(r.exc, r.msg)]
                /\ UNCHANGED <<base, url>>
           ELSE /\ pc' = [pc EXCEPT ![t] = "request"]
                /\ base' = [base EXCEPT ![t] = r.base]
                /\ url' = [url EXCEPT ![t] = r.url]
                /\ UNCHANGED outcome
    /\ UNCHANGED <<response, probe>>
    /\ UNCHANGED program

\* A variant of Get in which the URL is kept on the client object, not in a
\* local of the call: the request goes to the URL that any thread has built and
\* not yet requested.
Get_url_on_instance(t) ==
    /\ pc[t] = "request"
    /\ \E u \in Threads :
        /\ pc[u] = "request"
        /\ gets' = [gets EXCEPT ![t] = Append(gets[t], url[u])]
    /\ \/ /\ pc' = [pc EXCEPT ![t] = "raised"]
          /\ outcome' = [outcome EXCEPT ![t] = Raised("ConnectionError", <<>>)]
          /\ UNCHANGED response
       \/ /\ \E r \in Responses : response' = [response EXCEPT ![t] = r]
          /\ pc' = [pc EXCEPT ![t] = "status"]
          /\ UNCHANGED outcome
    /\ UNCHANGED <<call, base, url, probe>>
    /\ UNCHANGED program

\* A variant of Get that requests again when the transport fails.
Get_retrying(t) ==
    /\ pc[t] = "request"
    /\ gets' = [gets EXCEPT ![t] = Append(gets[t], url[t])]
    /\ \/ /\ pc' = [pc EXCEPT ![t] = "request"]
          /\ UNCHANGED <<response, outcome>>
       \/ /\ \E r \in Responses : response' = [response EXCEPT ![t] = r]
          /\ pc' = [pc EXCEPT ![t] = "status"]
          /\ UNCHANGED outcome
    /\ UNCHANGED <<call, base, url, probe>>
    /\ UNCHANGED program

\* response = self.session.get(url): the request goes out; the transport fails
\* (requests raises, and the method does not catch it) or the service answers.
Get(t) ==
    /\ pc[t] = "request"
    /\ gets' = [gets EXCEPT ![t] = Append(gets[t], url[t])]
    /\ \/ /\ pc' = [pc EXCEPT ![t] = "raised"]
          /\ outcome' = [outcome EXCEPT ![t] = Raised("ConnectionError", <<>>)]
          /\ UNCHANGED response
       \/ /\ \E r \in Responses : response' = [response EXCEPT ![t] = r]
          /\ pc' = [pc EXCEPT ![t] = "status"]
          /\ UNCHANGED outcome
    /\ UNCHANGED <<call, base, url, probe>>
    /\ UNCHANGED program

\* response.raise_for_status()
RaiseForStatus(t) ==
    /\ pc[t] = "status"
    /\ IF raise_for_status(response[t].status)
       THEN /\ pc' = [pc EXCEPT ![t] = "raised"]
            /\ outcome' = [outcome EXCEPT ![t] = Raised("HTTPError", <<>>)]
       ELSE /\ pc' = [pc EXCEPT ![t] = "decode"]
            /\ UNCHANGED outcome
    /\ UNCHANGED <<call, base, url, gets, response, probe>>
    /\ UNCHANGED program

\* return response.json()
ReturnJson(t) ==
    /\ pc[t] = "decode"
    /\ LET decoded == json(response[t].body)
       IN  IF decoded.ok
           THEN /\ pc' = [pc EXCEPT ![t] = "returned"]
                /\ outcome' = [outcome EXCEPT ![t] = Returned(decoded.doc)]
           ELSE /\ pc' = [pc EXCEPT ![t] = "raised"]
                /\ outcome' = [outcome EXCEPT ![t] = Raised("JSONDecodeError", <<>>)]
    /\ UNCHANGED <<call, base, url, gets, response, probe>>
    /\ UNCHANGED program

\* The frame of the call is gone: its locals die with it and the thread is free
\* to make its next call.
Leave(t) ==
    /\ pc[t] \in {"returned", "raised"}
    /\ pc' = [pc EXCEPT ![t] = "idle"]
    /\ call' = [call EXCEPT ![t] = NoCall]
    /\ base' = [base EXCEPT ![t] = <<>>]
    /\ url' = [url EXCEPT ![t] = <<>>]
    /\ gets' = [gets EXCEPT ![t] = <<>>]
    /\ response' = [response EXCEPT ![t] = NoResponse]
    /\ outcome' = [outcome EXCEPT ![t] = NoOutcome]

\* The caller takes the result or the exception.
Finish(t) ==
    /\ Leave(t)
    /\ UNCHANGED probe
    /\ UNCHANGED program

\* The same, and the history remembers this call in place of the one it held.
FinishRemembered(t) ==
    /\ Leave(t)
    /\ probe' = [call |-> call[t], outcome |-> outcome[t], gets |-> gets[t]]
    /\ UNCHANGED program

\* One thread using the client, making any call.
Next ==
    \E t \in {"main"} :
        \/ \E c \in Calls : Invoke(t, c)
        \/ Get(t)
        \/ RaiseForStatus(t)
        \/ ReturnJson(t)
        \/ Finish(t)

Spec == Init /\ [][Next]_vars

\* A shorter history: the calls of three methods with at most one filter, each
\* call free to be remembered when it ends.
HistCalls ==
    {c \in FlagCalls \cup YearCalls \cup MepsCalls :
        /\ c.method \in {"get_crdc_bullying_segment", "get_ccd_directory", "get_meps_school_poverty"}
        /\ c.year \in {2012, 2013}
        /\ Len(c.kwargs) <= 1}

NextHist ==
    \E t \in {"main"} :
        \/ \E c \in HistCalls : Invoke(t, c)
        \/ Get(t)
        \/ RaiseForStatus(t)
        \/ ReturnJson(t)
        \/ Finish(t)
        \/ FinishRemembered(t)

SpecHist == Init /\ [][NextHist]_vars

\* ------------------------------------------------- two threads, one client

\* The calls of a cascade method and of an anchor method, with every set of
\* flags, without a filter or with one.
ConcCalls ==
    {c \in FlagCalls :
        /\ c.method \in {"get_crdc_bullying_segment", "get_crdc_discipline_segment"}
        /\ c.year = 2013
        /\ c.kwargs \in {<<>>, <<<<"fips", [int |-> 1]>>>>}}

\* Two threads use the same EducationDataAPI object, each making any of these
\* calls at any time; their steps interleave freely.
NextConc ==
    \E t \in Threads :
        \/ \E c \in ConcCalls : Invoke(t, c)
        \/ Get(t)
        \/ RaiseForStatus(t)
        \/ ReturnJson(t)
        \/ Finish(t)

SpecConc == Init /\ [][NextConc]_vars

\* --------------------------------------- two calls with the same filters

\* The calls of get_ccd_directory and of get_ccd_summary for one year, with
\* every filter mapping.
OrderCalls ==
    {c \in YearCalls \cup SummaryCalls :
        /\ c.method \in {"get_ccd_directory", "get_ccd_summary"}
        /\ c.method = "get_ccd_directory" => c.year = 2013
        /\ c.method = "get_ccd_summary" => c.stat = "sum"}

\* Two callers, each making any of these calls, so that the URLs of two calls
\* can be set side by side.
NextOrder ==
    \E t \in Threads :
        \/ \E c \in OrderCalls : Invoke(t, c)
        \/ Get(t)
        \/ RaiseForStatus(t)
        \/ ReturnJson(t)
        \/ Finish(t)

SpecOrder == Init /\ [][NextOrder]_vars

\* --------------------------------------------- the command-line program

\* The call that main() makes:
\* api.get_crdc_advanced_enrollment_segment(2013, race_segment=True,
\*                                          sex_segment=True, race=1, sex=1)
MainCall ==
    [method |-> "get_crdc_advanced_enrollment_segment", year |-> 2013,
     flags |-> {"race", "sex"},
     kwargs |-> <<<<"race", [int |-> 1]>>, <<"sex", [int |-> 1]>>>>]

\* What datetime.now() may give.
Instants ==
    { [year |-> 2024, month |-> 3, day |-> 9, hour |-> 7, minute |-> 5, second |-> 8],
      [year |-> 2024, month |-> 11, day |-> 30, hour |-> 23, minute |-> 59, second |-> 59] }

\* A number as strftime writes a two-digit field (%m, %d, %H, %M, %S).
TwoDigits(n) == IF n < 10 THEN "0" \o ToString(n) ELSE ToString(n)

\* now.strftime('%Y%m%d_%H%M%S'), for a year of four digits.
strftime(now) ==
    ToString(now.year) \o TwoDigits(now.month) \o TwoDigits(now.day) \o "_"
        \o TwoDigits(now.hour) \o TwoDigits(now.minute) \o TwoDigits(now.second)

\* The keys of a decoded object, in the order the serializer walks them.
RECURSIVE Items(_)
Items(obj) ==
    IF obj = {} THEN <<>>
    ELSE LET key == CHOOSE k \in obj : TRUE
         IN  <<key>> \o Items(obj \ {key})

RECURSIVE Spaces(_)
Spaces(n) == IF n = 0 THEN "" ELSE " " \o Spaces(n - 1)

\* json.dumps(obj, indent=indent), and the text json.dump writes: the members
\* each on a line of their own, indented, with "," between them.
RECURSIVE Lines(_, _)
Lines(items, indent) ==
    IF items = <<>> THEN <<>>
    ELSE <<"\n" \o Spaces(indent), items[1]>>
            \o (IF Len(items) > 1 THEN <<",">> ELSE <<>>)
            \o Lines(Tail(items), indent)

dumps(obj, indent) ==
    IF obj = {} THEN <<"{}">>
    ELSE <<"{">> \o Lines(Items(obj), indent) \o <<"\n", "}">>

\* The working directory before the program runs: no json directory, or one
\* left by an earlier run.
InitCli ==
    /\ pc = [t \in Threads |-> "idle"]
    /\ call = [t \in Threads |-> NoCall]
    /\ base = [t \in Threads |-> <<>>]
    /\ url = [t \in Threads |-> <<>>]
    /\ gets = [t \in Threads |-> <<>>]
    /\ response = [t \in Threads |-> NoResponse]
    /\ outcome = [t \in Threads |-> NoOutcome]
    /\ probe = NoProbe
    /\ mainpc = "off"
    /\ output = FALSE
    /\ dirs \in {{}, {"json"}}
    /\ files = <<>>
    /\ stdout = <<>>
    /\ started = [dirs |-> dirs, files |-> files]

\* The process starts: args = parser.parse_args(); api = EducationDataAPI().
MainStart(flag) ==
    /\ mainpc = "off"
    /\ mainpc' = "running"
    /\ output' = flag
    /\ stdout' = <<>>
    /\ started' = [dirs |-> dirs, files |-> files]
    /\ UNCHANGED <<dirs, files>>
    /\ UNCHANGED client

\* data = api.get_crdc_advanced_enrollment_segment(...)
MainInvoke ==
    /\ mainpc = "running"
    /\ Invoke("main", MainCall)

\* A variant of MainReport that prints the body whether or not it writes it.
MainReport_printing_always ==
    /\ mainpc = "running"
    /\ pc["main"] = "returned"
    /\ LET data == outcome["main"].value
       IN  IF output
           THEN \E now \in Instants :
                    LET filepath == <<"json", "/", "response_", strftime(now), ".json">>
                    IN  /\ dirs' = dirs \cup {"json"}
                        /\ files' = (filepath :> dumps(data, 4)) @@ files
                        /\ stdout' = stdout \o <<dumps(data, 4), <<"Data written to ">> \o filepath>>
           ELSE /\ stdout' = Append(stdout, dumps(data, 4))
                /\ UNCHANGED <<dirs, files>>
    /\ mainpc' = "reported"
    /\ UNCHANGED <<output, started>>
    /\ UNCHANGED client

\* The call has returned, and main() does what args.output says: it makes the
\* json directory, writes the body to a file named after the time and prints
\* where; or it prints the body.
MainReport ==
    /\ mainpc = "running"
    /\ pc["main"] = "returned"
    /\ LET data == outcome["main"].value
       IN  IF output
           THEN \E now \in Instants :
                    LET output_dir == "json"
                        timestamp == strftime(now)
                        filename == <<"response_", timestamp, ".json">>
                        filepath == <<output_dir, "/">> \o filename
                    IN  /\ dirs' = dirs \cup {output_dir}
                        /\ files' = (filepath :> dumps(data, 4)) @@ files
                        /\ stdout' = Append(stdout, <<"Data written to ">> \o filepath)
           ELSE LET formatted_data == dumps(data, 4)
                IN  /\ stdout' = Append(stdout, formatted_data)
                    /\ UNCHANGED <<dirs, files>>
    /\ mainpc' = "reported"
    /\ UNCHANGED <<output, started>>
    /\ UNCHANGED client

\* The process ends: main() has reported, or the exception of the call has left
\* main() uncaught.
MainExit ==
    /\ \/ mainpc = "reported"
       \/ mainpc = "running" /\ pc["main"] = "raised"
    /\ mainpc' = "off"
    /\ Leave("main")
    /\ UNCHANGED <<probe, output, dirs, files, stdout, started>>

\* The program run any number of times in the same working directory.
NextCli ==
    \/ \E flag \in BOOLEAN : MainStart(flag)
    \/ MainInvoke
    \/ Get("main")
    \/ RaiseForStatus("main")
    \/ ReturnJson("main")
    \/ MainReport
    \/ MainExit

SpecCli == InitCli /\ [][NextCli]_vars

\* ------------------------------------------------------ reading a state back

\* The call of thread t was rejected by the method's own validation.
Rejected(t) == pc[t] = "raised" /\ outcome[t].exc = "ValueError"

\* The call of thread t passed validation and built its URL.
Accepted(t) == pc[t] # "idle" /\ url[t] # <<>>

\* The part of a URL before its query: the tokens before the first "?".
PathOf(u) ==
    LET marks == {i \in 1..Len(u) : u[i] = "?"}
    IN  IF marks = {} THEN u
        ELSE SubSeq(u, 1, (CHOOSE i \in marks : \A j \in marks : i <= j) - 1)

\* What the path of URL u holds after the base path b.
FragmentOf(b, u) == SubSeq(PathOf(u), Len(b) + 1, Len(PathOf(u)))

\* The names in a fragment: its tokens other than the separator.
NamesIn(fragment) == {fragment[i] : i \in 1..Len(fragment)} \ {"/"}

LegalPairs == {{"race", "sex"}, {"disability", "sex"}, {"lep", "sex"}}
AnchorLegal == {{"disability", "sex"}, {"disability", "race", "sex"}, {"disability", "lep", "sex"}}

\* ------------------------------------------------------------------ claims

\* C1: each of the nine cascade methods raises ValueError for every set of true
\* flags other than {race, sex}, {disability, sex} and {lep, sex}; the empty
\* set and {sex} are among the rejected.
C1_CascadeRejectsAllButThreePairs ==
    \A t \in Threads :
        (call[t].method \in CascadeMethods /\ pc[t] # "idle")
            => (Rejected(t) <=> call[t].flags \notin LegalPairs)

\* C2: in the eight cascade methods other than dual enrollment, {race, sex} is
\* accepted and appends race/sex/ to the base path, {disability, sex} appends
\* disability/sex/, {lep, sex} appends lep/sex/, whatever the year and filters.
C2_PairFragments ==
    \A t \in Threads :
        (/\ call[t].method \in CascadeMethods \ {"get_crdc_dual_enrollment_segment"}
         /\ pc[t] # "idle"
         /\ call[t].flags \in LegalPairs)
            => /\ Accepted(t)
               /\ FragmentOf(base[t], url[t]) =
                    (CASE call[t].flags = {"race", "sex"} -> <<"race", "/", "sex", "/">>
                       [] call[t].flags = {"disability", "sex"} -> <<"disability", "/", "sex", "/">>
                       [] call[t].flags = {"lep", "sex"} -> <<"lep", "/", "sex", "/">>)

\* C2 witness: the absenteeism call with lep and sex, a later year and two
\* filters has built its URL.
C2_Witness ==
    /\ pc["main"] = "request"
    /\ call["main"].method = "get_crdc_absenteeism_segment"
    /\ call["main"].flags = {"lep", "sex"}
    /\ call["main"].year = 2017
    /\ Len(call["main"].kwargs) = 2

\* C3: discipline and restraint accept {disability, sex}, {disability, race,
\* sex} and {disability, lep, sex}, with the fragments disability/sex/,
\* disability/race/sex/ and disability/lep/sex/.
C3_AnchorFragments ==
    \A t \in Threads :
        (/\ call[t].method \in AnchorMethods
         /\ pc[t] # "idle"
         /\ call[t].flags \in AnchorLegal)
            => /\ Accepted(t)
               /\ FragmentOf(base[t], url[t]) =
                    (CASE call[t].flags = {"disability", "sex"} -> <<"disability", "/", "sex", "/">>
                       [] call[t].flags = {"disability", "race", "sex"} ->
                            <<"disability", "/", "race", "/", "sex", "/">>
                       [] call[t].flags = {"disability", "lep", "sex"} ->
                            <<"disability", "/", "lep", "/", "sex", "/">>)

\* C3 witness: the restraint call with disability, race and sex has built its URL.
C3_Witness ==
    /\ pc["main"] = "request"
    /\ call["main"].method = "get_crdc_restraint_segment"
    /\ call["main"].flags = {"disability", "race", "sex"}

\* C4: discipline and restraint raise ValueError for each of the 13 other sets
\* of true flags.
C4_AnchorRejectsTheRest ==
    \A t \in Threads :
        (/\ call[t].method \in AnchorMethods
         /\ pc[t] # "idle"
         /\ call[t].flags \notin AnchorLegal)
            => Rejected(t)

\* C4 witness: the discipline call with all four flags has been rejected.
C4_Witness ==
    /\ call["main"].method = "get_crdc_discipline_segment"
    /\ call["main"].flags = SegmentFlags
    /\ Rejected("main")

\* C5: retention and days-suspended accept exactly {race, sex}, {disability,
\* sex} and {lep, sex} and raise ValueError for the other 13 sets.
C5_ExactMatch ==
    \A t \in Threads :
        (call[t].method \in ExactMethods /\ pc[t] # "idle")
            => /\ Rejected(t) <=> call[t].flags \notin LegalPairs
               /\ Accepted(t) <=> call[t].flags \in LegalPairs

\* C5 witness: the retention call with no flag has been rejected.
C5_Witness ==
    /\ call["main"].method = "get_crdc_retention_segment"
    /\ call["main"].flags = {}
    /\ Rejected("main")

\* C6: a call that ends in a validation ValueError has passed no URL to
\* session.get.
C6_RejectionBeforeAnyGet ==
    \A t \in Threads : Rejected(t) => gets[t] = <<>>

\* C6 witness: the poverty call for 2012 has been rejected.
C6_Witness ==
    /\ call["main"].method = "get_meps_school_poverty"
    /\ call["main"].year = 2012
    /\ Rejected("main")

\* C7: whenever a method with segment flags issues a GET, the names in the
\* fragment of the requested path are the flags the caller passed as true.
C7_NoSilentDowngrade ==
    \A t \in Threads :
        (call[t].method \in FlagMethods /\ gets[t] # <<>>)
            => NamesIn(FragmentOf(base[t], gets[t][1])) = call[t].flags

\* C8: a call whose arguments equal those of a remembered earlier call ends its
\* validation with the same verdict and passes the same URLs to session.get.
C8_HistoryIndependent ==
    \A t \in Threads :
        (pc[t] \notin {"idle", "request"} /\ probe.call = call[t])
            => /\ gets[t] = probe.gets
               /\ Rejected(t) <=> probe.outcome.exc = "ValueError"
               /\ Rejected(t) => outcome[t] = probe.outcome

\* C8 witness: the remembered call had a filter and failed in transport; the
\* same call made again has returned.
C8_Witness ==
    /\ probe.call = call["main"]
    /\ probe.outcome.exc = "ConnectionError"
    /\ probe.call.kwargs # <<>>
    /\ pc["main"] = "returned"

\* C9: a call passes at most one URL to session.get, and exactly one when it
\* returns.
C9_OneGetPerCall ==
    \A t \in Threads :
        /\ Len(gets[t]) <= 1
        /\ pc[t] = "returned" => Len(gets[t]) = 1

\* C9 witness: a call has returned a body that holds a next link.
C9_Witness ==
    /\ pc["main"] = "returned"
    /\ "next" \in outcome["main"].value
    /\ Len(gets["main"]) = 1

\* C10 as stated: once the service has answered, a status outside 200..299
\* makes the call raise, and any other status makes it return the whole
\* decoded body.
C10_TwoOutcomesBy2xx ==
    \A t \in Threads :
        (response[t] # NoResponse /\ pc[t] \in {"returned", "raised"})
            => IF response[t].status \notin 200..299
               THEN pc[t] = "raised"
               ELSE /\ pc[t] = "returned"
                    /\ outcome[t].value =
                         {response[t].body[i] : i \in 2..(Len(response[t].body) - 1)}

\* C10 as amended: once the service has answered, a 4xx or 5xx status makes the
\* call raise HTTPError with the body never decoded; any other status makes it
\* return the whole decoded body when the body is a JSON document and raise
\* JSONDecodeError when it is not.  Nothing partial or substituted is returned.
C10_TwoOutcomes ==
    \A t \in Threads :
        (response[t] # NoResponse /\ pc[t] \in {"returned", "raised"})
            => LET s == response[t].status
                   b == response[t].body
                   document == Len(b) >= 2 /\ b[1] = "{" /\ b[Len(b)] = "}"
               IN  IF s \in 400..599
                   THEN pc[t] = "raised" /\ outcome[t].exc = "HTTPError"
                   ELSE IF document
                   THEN /\ pc[t] = "returned"
                        /\ outcome[t].value = {b[i] : i \in 2..(Len(b) - 1)}
                   ELSE pc[t] = "raised" /\ outcome[t].exc = "JSONDecodeError"

\* C10 witness: a call answered with status 304 and a JSON body has returned.
C10_Witness ==
    /\ pc["main"] = "returned"
    /\ response["main"].status = 304

\* The query of a URL: the tokens after its first "?".
QueryOf(u) == SubSeq(u, Len(PathOf(u)) + 2, Len(u))

\* A filter value as the caller wrote it.
Written(value) ==
    IF "str" \in DOMAIN value THEN value.str ELSE ToString(value.int)

\* q is the filters kw, each as key=value with its value verbatim, joined by
\* "&": every filter once, and nothing else.
IsRendering(q, kw) ==
    /\ Len(q) = 4 * Len(kw) - 1
    /\ \A i \in 1..Len(kw) :
        /\ q[4 * i - 3] = kw[i][1]
        /\ q[4 * i - 2] = "="
        /\ q[4 * i - 1] = Written(kw[i][2])
        /\ i < Len(kw) => q[4 * i] = "&"

\* The call c with its filter mapping emptied.
WithoutFilters(c) == [c EXCEPT !.kwargs = <<>>]

\* Thread t is in a call that was given a non-empty filter mapping.
HasFilters(t) ==
    /\ pc[t] # "idle"
    /\ "kwargs" \in DOMAIN call[t]
    /\ call[t].kwargs # <<>>

\* C11 as stated: for every method that takes filters and every non-empty
\* filter mapping, the verdict is that of the call without filters, and the URL
\* is the path of that call, then "?", then exactly the filters as key=value
\* joined by "&".
C11_QueryIsTheFilters ==
    \A t \in Threads :
        HasFilters(t)
            => /\ Rejected(t) <=> Bind(WithoutFilters(call[t])).exc # "none"
               /\ Accepted(t)
                    => /\ PathOf(url[t]) = PathOf(Bind(WithoutFilters(call[t])).url)
                       /\ url[t] = PathOf(url[t]) \o <<"?">> \o QueryOf(url[t])
                       /\ IsRendering(QueryOf(url[t]), call[t].kwargs)

\* C11 as amended: the same for every method but get_ccd_summary; in
\* get_ccd_summary the query is var, stat and by, then "&", then exactly the
\* filters as key=value joined by "&".
C11_FiltersEndTheQuery ==
    \A t \in Threads :
        HasFilters(t)
            => /\ Rejected(t) <=> Bind(WithoutFilters(call[t])).exc # "none"
               /\ Accepted(t)
                    => LET alone == Bind(WithoutFilters(call[t])).url
                           fixed == QueryOf(alone)
                           query == QueryOf(url[t])
                       IN  /\ PathOf(url[t]) = PathOf(alone)
                           /\ url[t] = PathOf(url[t]) \o <<"?">> \o query
                           /\ IF call[t].method = "get_ccd_summary"
                              THEN /\ fixed = <<"var", "=", call[t].var, "&", "stat", "=",
                                                call[t].stat, "&", "by", "=", call[t].by>>
                                   /\ SubSeq(query, 1, Len(fixed) + 1) = fixed \o <<"&">>
                                   /\ IsRendering(SubSeq(query, Len(fixed) + 2, Len(query)),
                                                  call[t].kwargs)
                              ELSE /\ fixed = <<>>
                                   /\ IsRendering(query, call[t].kwargs)

\* C11 witness: a staff call with two filters, a number and a string, has
\* built its URL.
C11_Witness ==
    /\ pc["main"] = "request"
    /\ call["main"].method = "get_crdc_staff"
    /\ Len(call["main"].kwargs) = 2
    /\ call["main"].kwargs[1][1] = "state_location"

\* The combinations of flags that a message names: those whose phrase is a
\* token of it.
NamedIn(msg) ==
    {combo \in SUBSET SegmentFlags :
        \E i \in 1..Len(msg) :
            \/ msg[i] = "race and sex" /\ combo = {"race", "sex"}
            \/ msg[i] = "disability and sex" /\ combo = {"disability", "sex"}
            \/ msg[i] \in {"lep and sex", "LEP and sex"} /\ combo = {"lep", "sex"}}

\* The legal combinations of a method with segment flags.
LegalOf(method) == IF method \in AnchorMethods THEN AnchorLegal ELSE LegalPairs

\* Thread t is in a call of a method with segment flags that its validation
\* rejected.
FlagsRejected(t) == Rejected(t) /\ call[t].method \in FlagMethods

\* C12 as stated: the message of every rejection of a combination of segment
\* flags names all the legal combinations of the method.
C12_RejectionNamesAllLegal ==
    \A t \in Threads :
        FlagsRejected(t) => LegalOf(call[t].method) \subseteq NamedIn(outcome[t].msg)

\* C12 as amended: every rejection of a combination of segment flags is a
\* ValueError with a message; the message names all the legal combinations of
\* the method exactly when the method is retention or days-suspended, or is a
\* cascade method called with sex true.
C12_RejectionNamesTheFailedRule ==
    \A t \in Threads :
        FlagsRejected(t)
            => /\ outcome[t].msg # <<>>
               /\ LegalOf(call[t].method) \subseteq NamedIn(outcome[t].msg)
                    <=> \/ call[t].method \in ExactMethods
                        \/ call[t].method \in CascadeMethods /\ "sex" \in call[t].flags

\* C12 witness: the absenteeism call with race, lep and sex has been rejected
\* with a message that names the three legal pairs.
C12_Witness ==
    /\ FlagsRejected("main")
    /\ call["main"].method = "get_crdc_absenteeism_segment"
    /\ call["main"].flags = {"race", "lep", "sex"}
    /\ NamedIn(outcome["main"].msg) = LegalPairs

\* The values of stat that the docstring of get_ccd_summary lists.
DocumentedStats == {"sum", "count", "avg", "median", "min", "max", "variance", "stddev"}

\* C13: a call of get_ccd_summary whose stat is not one of the eight documented
\* values never returns a value: it ends by raising, whatever var and by are.
C13_InvalidStatRaises ==
    \A t \in Threads :
        (/\ call[t].method = "get_ccd_summary"
         /\ call[t].stat \notin DocumentedStats)
            => pc[t] # "returned"

\* C14: a value that a metadata method, get_ccd_summary or get_ccd_directory
\* returns has no 'error' key.
C14_NoErrorKeyReturned ==
    \A t \in Threads :
        (/\ call[t].method \in MetadataMethods \cup {"get_ccd_summary", "get_ccd_directory"}
         /\ pc[t] = "returned")
            => "error" \notin outcome[t].value

\* The tokens of a string, as a set.
TokensOf(s) == {s[i] : i \in 1..Len(s)}

\* C15: get_edfacts_state_assessment_segment raises ValueError, with no request
\* made, exactly when segment is not "race", "sex" or "special-populations";
\* the message names the rejected segment and the three valid ones; a valid
\* segment gives the path schools/edfacts/assessments/{year}/grade-{grade}/{segment}/.
C15_EdfactsSegment ==
    \A t \in Threads :
        (call[t].method = "get_edfacts_state_assessment_segment" /\ pc[t] # "idle")
            => LET c == call[t]
                   valid == {"race", "sex", "special-populations"}
               IN  /\ Rejected(t) <=> c.segment \notin valid
                   /\ Rejected(t)
                        => /\ gets[t] = <<>>
                           /\ {c.segment} \cup valid \subseteq TokensOf(outcome[t].msg)
                   /\ c.segment \in valid
                        => /\ Accepted(t)
                           /\ PathOf(url[t]) =
                                <<BASE_URL, "schools", "/", "edfacts", "/", "assessments", "/",
                                  ToString(c.year), "/", "grade-", ToString(c.grade_edfacts),
                                  "/", c.segment, "/">>

\* C15 witness: the call with segment "disability" has been rejected.
C15_Witness ==
    /\ call["main"].method = "get_edfacts_state_assessment_segment"
    /\ call["main"].segment = "disability"
    /\ Rejected("main")

\* The texts that the process printed.
Printed == {stdout[i] : i \in 1..Len(stdout)}

\* C16: when main() has reported a body, then with --output the body is in a
\* file json/response_<YYYYMMDD_HHMMSS>.json, the json directory exists,
\* nothing else in the working directory has changed and the body was not
\* printed; without --output the body was printed and the working directory
\* is as it was when the process started.
C16_WriteOrPrint ==
    mainpc = "reported"
        => LET data == outcome["main"].value
               text == dumps(data, 4)
           IN  IF output
               THEN /\ "json" \in dirs
                    /\ dirs \ {"json"} = started.dirs \ {"json"}
                    /\ \E p \in DOMAIN files :
                        /\ Len(p) = 5
                        /\ <<p[1], p[2], p[3], p[5]>> = <<"json", "/", "response_", ".json">>
                        /\ Len(p[4]) = 15
                        /\ files[p] = text
                        /\ \A q \in DOMAIN files \ {p} :
                            q \in DOMAIN started.files /\ files[q] = started.files[q]
                        /\ DOMAIN started.files \subseteq DOMAIN files
                    /\ \A line \in Printed : TokensOf(line) \cap data = {}
               ELSE /\ Printed = {text}
                    /\ data \subseteq TokensOf(text)
                    /\ dirs = started.dirs
                    /\ files = started.files

\* C16 witness: run with --output where there was no json directory, the
\* program has written the body to a file.
C16_Witness ==
    /\ mainpc = "reported"
    /\ output
    /\ "json" \notin started.dirs
    /\ "results" \in outcome["main"].value
    /\ Len(stdout) = 1
    /\ DOMAIN files # {}

\* C17: with two threads calling segment methods on one client at the same
\* time, each call is rejected exactly when the same call made alone is, with
\* the same message, and builds and requests the URL that the call made alone
\* builds.
C17_ThreadsDoNotInterfere ==
    \A t \in Threads :
        pc[t] # "idle"
            => LET alone == Bind(call[t])
               IN  /\ Rejected(t) <=> alone.exc = "ValueError"
                   /\ Rejected(t) => outcome[t].msg = alone.msg /\ gets[t] = <<>>
                   /\ ~Rejected(t)
                        => /\ url[t] = alone.url
                           /\ base[t] = alone.base
                           /\ \A i \in 1..Len(gets[t]) : gets[t][i] = alone.url
                           /\ pc[t] # "request" => gets[t] = <<alone.url>>

\* C17 witness: the worker built the URL of its call while the call of the main
\* thread, with other flags, was in progress, and has now sent its request.
C17_Witness ==
    /\ pc["main"] = "request"
    /\ pc["worker"] = "status"
    /\ call["main"].method = call["worker"].method
    /\ call["main"].flags = {"race", "sex"}
    /\ call["worker"].flags = {"lep", "sex"}

\* C18: get_ccd_enrollment never rejects a combination of race and sex: with
\* neither it requests schools/ccd/enrollment/{year}/grade-{grade}/, with race
\* alone it appends race/, with sex alone sex/, with both race/sex/.
C18_CcdEnrollmentFragments ==
    \A t \in Threads :
        (call[t].method = "get_ccd_enrollment" /\ pc[t] # "idle")
            => LET c == call[t]
               IN  /\ ~Rejected(t)
                   /\ Accepted(t)
                   /\ base[t] = <<BASE_URL, "schools", "/", "ccd", "/", "enrollment", "/",
                                  ToString(c.year), "/", "grade-", ToString(c.grade), "/">>
                   /\ FragmentOf(base[t], url[t]) =
                        (CASE Truthy(c.race) /\ Truthy(c.sex) -> <<"race", "/", "sex", "/">>
                           [] Truthy(c.race) /\ ~Truthy(c.sex) -> <<"race", "/">>
                           [] ~Truthy(c.race) /\ Truthy(c.sex) -> <<"sex", "/">>
                           [] ~Truthy(c.race) /\ ~Truthy(c.sex) -> <<>>)

\* C18 witness: the call with race and sex both True has built its URL.
C18_Witness ==
    /\ pc["main"] = "request"
    /\ call["main"].method = "get_ccd_enrollment"
    /\ call["main"].race = [bool |-> TRUE]
    /\ call["main"].sex = [bool |-> TRUE]

\* The eight cascade methods other than get_crdc_enrollment.
LaterCascadeMethods == CascadeMethods \ {"get_crdc_enrollment"}

\* Thread t is in a call of a method with segment flags with exactly one flag
\* true.
OneFlag(t) ==
    /\ pc[t] # "idle"
    /\ call[t].method \in FlagMethods
    /\ Cardinality(call[t].flags) = 1

\* C19 as stated: with exactly one flag true, bullying, absenteeism, advanced
\* enrollment, AP, college exam, math and science, algebra and dual enrollment
\* accept the call and request the base path with no fragment; days-suspended
\* and retention raise.
C19_OneFlagFallsThrough ==
    \A t \in Threads :
        OneFlag(t)
            => /\ call[t].method \in LaterCascadeMethods
                    => ~Rejected(t) /\ Accepted(t) /\ PathOf(url[t]) = base[t]
               /\ call[t].method \in ExactMethods => Rejected(t)

\* C19 as amended: the eight methods accept the call and request the base path
\* with no fragment when the one true flag is sex, and raise when it is race,
\* disability or lep; days-suspended and retention raise for every one flag.
C19_SexAloneFallsThrough ==
    \A t \in Threads :
        OneFlag(t)
            => /\ (call[t].method \in LaterCascadeMethods /\ call[t].flags = {"sex"})
                    => ~Rejected(t) /\ Accepted(t) /\ PathOf(url[t]) = base[t]
               /\ (call[t].method \in LaterCascadeMethods /\ call[t].flags # {"sex"})
                    => Rejected(t)
               /\ call[t].method \in ExactMethods => Rejected(t)

\* C19 witness: the AP call with sex alone and a filter has requested its URL.
C19_Witness ==
    /\ pc["main"] = "status"
    /\ call["main"].method = "get_crdc_ap_segment"
    /\ call["main"].flags = {"sex"}
    /\ call["main"].kwargs # <<>>

\* C20: an accepted fragment of dual enrollment and of retention does not end
\* with "/", so with filters the URL is <base>race/sex?k=v; an accepted
\* fragment of every other method with segments, days-suspended among them,
\* ends with "/", so with filters the URL is <base>race/sex/?k=v.
C20_TrailingSlash ==
    \A t \in Threads :
        (/\ Accepted(t)
         /\ call[t].method \in FlagMethods \cup {"get_ccd_enrollment"}
         /\ FragmentOf(base[t], url[t]) # <<>>)
            => LET fragment == FragmentOf(base[t], url[t])
                   last == fragment[Len(fragment)]
                   bare == call[t].method \in
                            {"get_crdc_dual_enrollment_segment", "get_crdc_retention_segment"}
               IN  /\ bare => last \in SegmentFlags
                   /\ ~bare => last = "/" /\ fragment[Len(fragment) - 1] \in SegmentFlags
                   /\ call[t].kwargs # <<>>
                        => url[t] = base[t] \o fragment \o <<"?">> \o QueryOf(url[t])
                   /\ call[t].kwargs = <<>> => url[t] = base[t] \o fragment

\* C20 witness: the retention call with race, sex and a filter has built its URL.
C20_Witness ==
    /\ pc["main"] = "request"
    /\ call["main"].method = "get_crdc_retention_segment"
    /\ call["main"].flags = {"race", "sex"}
    /\ call["main"].kwargs # <<>>

\* The <<key, value>> pairs of a filter mapping, as a set.
PairsOf(kw) == {kw[i] : i \in 1..Len(kw)}

\* Both threads are in accepted calls of the same method with the same
\* arguments and with filter mappings that hold the same pairs.
SameCallSamePairs ==
    /\ Accepted("main")
    /\ Accepted("worker")
    /\ WithoutFilters(call["main"]) = WithoutFilters(call["worker"])
    /\ PairsOf(call["main"].kwargs) = PairsOf(call["worker"].kwargs)

\* C21 as stated: two calls of the same method with the same arguments and
\* with filter mappings that hold the same pairs, in whatever order, have the
\* same query string.
C21_OrderIndependentQuery ==
    SameCallSamePairs => QueryOf(url["main"]) = QueryOf(url["worker"])

\* C21 as amended: the query string lists the filters in the order the caller
\* supplied them; two such calls have the same query string exactly when the
\* pairs were supplied in the same order.
C21_CallerOrderQuery ==
    SameCallSamePairs
        => /\ QueryOf(url["main"]) = QueryOf(url["worker"])
                <=> call["main"].kwargs = call["worker"].kwargs
           /\ \A t \in Threads :
                LET query == QueryOf(url[t])
                    n == 4 * Len(call[t].kwargs) - 1
                IN  call[t].kwargs # <<>>
                        => IsRendering(SubSeq(query, Len(query) - n + 1, Len(query)),
                                       call[t].kwargs)

\* C21 witness: two directory calls with the same two filters in opposite
\* orders have both built their URLs.
C21_Witness ==
    /\ SameCallSamePairs
    /\ call["main"].method = "get_ccd_directory"
    /\ Len(call["main"].kwargs) = 2
    /\ call["main"].kwargs # call["worker"].kwargs

\* The checks in the order that permutation p gives them.
Permuted(checks, p) == [i \in 1..Len(checks) |-> checks[p[i]]]

\* Thread t is in a call of a method that validates by a run of reject-if
\* checks.
InCheckedCall(t) ==
    pc[t] # "idle" /\ call[t].method \in CascadeMethods \cup AnchorMethods

\* C22: in the cascade methods and in discipline and restraint, the checks in
\* source order give the verdict and the message of the method, and in every
\* other order they give the same verdict; a rejected flag set receives the
\* message of one of the checks that it fails.
C22_CheckOrderKeepsVerdict ==
    \A t \in Threads :
        InCheckedCall(t)
            => LET checks == ChecksOf(call[t])
               IN  /\ Validate(checks).raised <=> Rejected(t)
                   /\ Rejected(t) => Validate(checks).msg = outcome[t].msg
                   /\ \A p \in Permutations(1..Len(checks)) :
                        LET permuted == Validate(Permuted(checks, p))
                        IN  /\ permuted.raised <=> Rejected(t)
                            /\ permuted.raised
                                => \E i \in 1..Len(checks) :
                                    checks[i].fails /\ checks[i].msg = permuted.msg

\* C22 witness: the discipline call with race and lep alone has been rejected,
\* and in another order of the checks it receives another message.
C22_Witness ==
    /\ Rejected("main")
    /\ call["main"].method = "get_crdc_discipline_segment"
    /\ call["main"].flags = {"race", "lep"}
    /\ \E p \in Permutations(1..5) :
        Validate(Permuted(ChecksOf(call["main"]), p)).msg # outcome["main"].msg

\* C23: a call of get_ccd_enrollment that passes race=<v> or sex=<v> with an
\* integer v sends race=<v>, sex=<v> to the service in the query string of the
\* URL.
C23_RaceSexSentAsFilters ==
    \A t \in Threads :
        (call[t].method = "get_ccd_enrollment" /\ pc[t] # "idle")
            => LET query == QueryOf(url[t])
                   Sent(name, value) ==
                        \E i \in 1..(Len(query) - 2) :
                            /\ query[i] = name
                            /\ query[i + 1] = "="
                            /\ query[i + 2] = ToString(value)
               IN  /\ "int" \in DOMAIN call[t].race => Sent("race", call[t].race.int)
                   /\ "int" \in DOMAIN call[t].sex => Sent("sex", call[t].sex.int)

\* C24: get_nhgis_geographic_variables raises ValueError, with no request made,
\* exactly when endpoint is not census-2010, census-2000 or census-1990; with a
\* valid endpoint it is accepted whatever the year and requests the path
\* schools/nhgis/{endpoint}/{year}/.
C24_NhgisEndpoint ==
    \A t \in Threads :
        (call[t].method = "get_nhgis_geographic_variables" /\ pc[t] # "idle")
            => LET c == call[t]
                   valid == {"census-2010", "census-2000", "census-1990"}
               IN  /\ Rejected(t) <=> c.endpoint \notin valid
                   /\ Rejected(t) => gets[t] = <<>>
                   /\ c.endpoint \in valid
                        => /\ Accepted(t)
                           /\ PathOf(url[t]) =
                                <<BASE_URL, "schools", "/", "nhgis", "/", c.endpoint, "/",
                                  ToString(c.year), "/">>

\* C24 witness: the census-2000 call for 1985 has sent its request.
C24_Witness ==
    /\ call["main"].method = "get_nhgis_geographic_variables"
    /\ call["main"].endpoint = "census-2000"
    /\ call["main"].year = 1985
    /\ Len(gets["main"]) = 1

\* Every year that a call of the model may name.
AllYears == Years \cup MepsYears \cup NhgisYears

\* C25: get_meps_school_poverty is accepted exactly when 2013 <= year <= 2020
\* and otherwise raises ValueError with no request made; the verdict of a call
\* of any other method is that of the same call with any other year.
C25_MepsYearRange ==
    \A t \in Threads :
        (pc[t] # "idle" /\ "year" \in DOMAIN call[t])
            => IF call[t].method = "get_meps_school_poverty"
               THEN /\ Accepted(t) <=> (2013 <= call[t].year /\ call[t].year <= 2020)
                    /\ Rejected(t) <=> ~(2013 <= call[t].year /\ call[t].year <= 2020)
                    /\ Rejected(t) => gets[t] = <<>>
               ELSE \A year \in AllYears :
                        Rejected(t) <=> Bind([call[t] EXCEPT !.year = year]).exc # "none"

\* C25 witness: the poverty call for 2021 has been rejected.
C25_Witness ==
    /\ call["main"].method = "get_meps_school_poverty"
    /\ call["main"].year = 2021
    /\ Rejected("main")

\* Thread t is in an accepted call that was given no filter.
NoFilters(t) ==
    /\ Accepted(t)
    /\ "kwargs" \in DOMAIN call[t] => call[t].kwargs = <<>>

\* C26: a call without filters, of any method but get_ccd_summary, has a URL
\* with no "?" and no query, which is the path alone; the URL of every
\* get_ccd_summary call is the summaries path, "?", var=<var>&stat=<stat>&by=<by>
\* in that order, and then the filters, if any.
C26_NoQueryWithoutFilters ==
    \A t \in Threads :
        /\ (NoFilters(t) /\ call[t].method # "get_ccd_summary")
                => /\ TokensOf(url[t]) \cap {"?", "=", "&"} = {}
                   /\ url[t] = PathOf(url[t])
                   /\ SubSeq(url[t], 1, Len(base[t])) = base[t]
        /\ (Accepted(t) /\ call[t].method = "get_ccd_summary")
                => LET c == call[t]
                       fixed == <<BASE_URL, "schools", "/", "ccd", "/", "directory", "/",
                                  "summaries", "?", "var", "=", c.var, "&", "stat", "=",
                                  c.stat, "&", "by", "=", c.by>>
                   IN  /\ SubSeq(url[t], 1, Len(fixed)) = fixed
                       /\ c.kwargs = <<>> => url[t] = fixed
                       /\ c.kwargs # <<>> => url[t][Len(fixed) + 1] = "&"

\* C26 witness: a school-finance call without filters has sent its request.
C26_Witness ==
    /\ call["main"].method = "get_crdc_school_finance"
    /\ call["main"].kwargs = <<>>
    /\ Len(gets["main"]) = 1

\* C27: a call of get_crdc_days_suspended_segment never fails for want of an
\* assigned fragment; when its flags pass the outer condition, exactly one of
\* the three conditions of the inner chain holds, and the fragment of the URL
\* names the true flags.
C27_InnerChainAssigns ==
    \A t \in Threads :
        (call[t].method = "get_crdc_days_suspended_segment" /\ pc[t] # "idle")
            => /\ outcome[t].exc # "UnboundLocalError"
               /\ Rejected(t) \/ Accepted(t)
               /\ Accepted(t)
                    => /\ Cardinality({pair \in LegalPairs : pair \subseteq call[t].flags}) = 1
                       /\ NamesIn(FragmentOf(base[t], url[t])) = call[t].flags
                       /\ FragmentOf(base[t], url[t]) \in
                            {<<"race", "/", "sex", "/">>, <<"disability", "/", "sex", "/">>,
                             <<"lep", "/", "sex", "/">>}

\* C27 witness: the days-suspended call with lep and sex, the last branch of
\* the inner chain, has built its URL.
C27_Witness ==
    /\ pc["main"] = "request"
    /\ call["main"].method = "get_crdc_days_suspended_segment"
    /\ call["main"].flags = {"lep", "sex"}

\* The calls of the exact-match methods with the year, flags and filters of
\* call c.
ExactCounterparts(c) ==
    {[method |-> "get_crdc_days_suspended_segment", year |-> c.year, flags |-> c.flags,
      kwargs |-> c.kwargs]}
    \cup {[method |-> "get_crdc_retention_segment", year |-> c.year, grade |-> g,
           flags |-> c.flags, kwargs |-> c.kwargs] : g \in Grades}

C29_AnchorMessages ==
    \A t \in Threads :
        (call[t].method \in AnchorMethods /\ Rejected(t))
            => LET flags == call[t].flags
                   msg == outcome[t].msg
               IN  /\ msg = Validate(ChecksOf(call[t])).msg
                   /\ msg = <<"Race and LEP cannot be combined together.">>
                        <=> flags = SegmentFlags
                   /\ msg = <<"At least ", "disability and sex", " must be combined.">>
                        <=> flags \in {{}, {"sex"}}
                   /\ ({"race", "lep"} \subseteq flags /\ "disability" \notin flags)
                        => msg = <<"Race can only be combined with ", "disability and sex", ".">>

\* C29 witness: the restraint call with race, lep and sex has been rejected
\* with the message about race.
C29_Witness ==
    /\ Rejected("main")
    /\ call["main"].method = "get_crdc_restraint_segment"
    /\ call["main"].flags = {"race", "lep", "sex"}
    /\ outcome["main"].msg[1] = "Race can only be combined with "

\* The call of cascade method m with the year, flags and filters of call c.
CascadeCounterpart(c, m) ==
    [method |-> m, year |-> c.year, flags |-> c.flags, kwargs |-> c.kwargs]

\* Thread t is in a call of get_crdc_enrollment.
InCrdcEnrollment(t) == call[t].method = "get_crdc_enrollment" /\ pc[t] # "idle"

\* With sex alone get_crdc_enrollment appends sex/, and with no flag it
\* requests schools/crdc/enrollment/{year}/.
SexAloneAndNone(t) ==
    /\ call[t].flags = {"sex"}
            => Accepted(t) /\ FragmentOf(base[t], url[t]) = <<"sex", "/">>
    /\ call[t].flags = {}
            => /\ Accepted(t)
               /\ PathOf(url[t]) = <<BASE_URL, "schools", "/", "crdc", "/", "enrollment", "/",
                                     ToString(call[t].year), "/">>

\* C30 as stated: a call of get_crdc_enrollment has the verdict of the same
\* call of each other cascade method, and the same fragment for every set of
\* flags but {sex}; with sex alone it appends sex/, and with no flag it
\* requests schools/crdc/enrollment/{year}/.
C30_DiffersOnSexAloneOnly ==
    \A t \in Threads :
        InCrdcEnrollment(t)
            => /\ SexAloneAndNone(t)
               /\ \A m \in LaterCascadeMethods :
                    LET other == Bind(CascadeCounterpart(call[t], m))
                    IN  /\ Rejected(t) <=> other.exc = "ValueError"
                        /\ Accepted(t)
                            => (FragmentOf(base[t], url[t]) # FragmentOf(other.base, other.url)
                                    <=> call[t].flags = {"sex"})

\* C30 as amended: the same, but against dual enrollment the fragment differs
\* also for the three legal pairs, by its trailing "/", while naming the same
\* segments.
C30_DiffersOnSexAloneAndSlash ==
    \A t \in Threads :
        InCrdcEnrollment(t)
            => /\ SexAloneAndNone(t)
               /\ \A m \in LaterCascadeMethods :
                    LET other == Bind(CascadeCounterpart(call[t], m))
                        mine == FragmentOf(base[t], url[t])
                        theirs == FragmentOf(other.base, other.url)
                    IN  /\ Rejected(t) <=> other.exc = "ValueError"
                        /\ Accepted(t)
                            => /\ mine # theirs
                                    <=> \/ call[t].flags = {"sex"}
                                        \/ /\ m = "get_crdc_dual_enrollment_segment"
                                           /\ call[t].flags \in LegalPairs
                               /\ call[t].flags \in LegalPairs
                                    => /\ NamesIn(mine) = NamesIn(theirs)
                                       /\ m = "get_crdc_dual_enrollment_segment"
                                            => mine = theirs \o <<"/">>

\* C30 witness: the get_crdc_enrollment call with sex alone has sent its
\* request.
C30_Witness ==
    /\ InCrdcEnrollment("main")
    /\ call["main"].flags = {"sex"}
    /\ Len(gets["main"]) = 1

=============================================================================
